---- MODULE Spec2Model ----
(***************************************************************************)
(* One inbound request of the bandwidth-hero image proxy, as handled by    *)
(* the variants of the handler found in the repository:                    *)
(*   "proxy1_a"  src/proxy1.js 1-196          (superagent, temp file)       *)
(*   "proxy1_b"  src/proxy1.js 198-396        (superagent, loop guard)      *)
(*   "part003_b" src/unnamed/part_003 186-370 (superagent, toBuffer)        *)
(*   "part004_a" src/unnamed/part_004 1-181   (http/https request)          *)
(*   "part002"   src/unnamed/part_002 1-223   (superagent, cache lookup)     *)
(*   "part003_a" src/unnamed/part_003 1-184   (superagent, 'data' listener)  *)
(*   "part004_b" src/unnamed/part_004 183-338 ('response' listener, pipe)    *)
(*   "part004_d" src/unnamed/part_004 499-638 (superagent, toBuffer)         *)
(* The HTTP client, the image codec and the response object of the web     *)
(* framework are collaborators outside the repository: the client and the  *)
(* codec are modelled by the outcomes they can deliver to the callbacks of *)
(* the handler, the response object by the documented behaviour of         *)
(* http.ServerResponse (setHeader/removeHeader throw once the header       *)
(* block exists, end on a finished response is ignored) and of Express     *)
(* (res.status, res.send).                                                 *)
(***************************************************************************)
EXTENDS Integers, Sequences, FiniteSets, TLC

(***************************************************************************)
(* JavaScript values.  A string is a sequence of tokens; a string that     *)
(* starts with an integer literal is "txt": n is the literal, s the text   *)
(* that follows it.  An optional value (a header, a query parameter) is    *)
(* the empty tuple when undefined and a one-element tuple otherwise.       *)
(***************************************************************************)
Num(n) == [k |-> "num", n |-> n, s |-> <<>>]
Str(s) == [k |-> "str", n |-> 0, s |-> s]
Txt(n, s) == [k |-> "txt", n |-> n, s |-> s]
NaN == [k |-> "nan", n |-> 0, s |-> <<>>]
Undefined == <<>>
Some(v) == <<v>>

\* truthiness of a defined value: 0, NaN and "" are falsy
Truthy(v) ==
  CASE v.k = "num" -> v.n # 0
    [] v.k = "nan" -> FALSE
    [] v.k = "txt" -> TRUE
    [] OTHER -> v.s # <<>>

\* truthiness of an optional value: undefined is falsy
TruthyOpt(o) == o # Undefined /\ Truthy(o[1])

\* parseInt(text, 10): the leading integer literal, NaN when there is none
parseInt(o) ==
  IF o = Undefined THEN NaN
  ELSE IF o[1].k = "txt" THEN Num(o[1].n)
  ELSE IF o[1].k = "num" THEN Num(o[1].n)
  ELSE NaN

\* Number(text) as done by the loose comparison `x != 0`
ToNumber(v) ==
  CASE v.k = "num" -> v
    [] v.k = "nan" -> NaN
    [] v.k = "txt" -> IF v.s = <<>> THEN Num(v.n) ELSE NaN
    [] OTHER -> IF v.s = <<>> THEN Num(0) ELSE NaN

\* a < b, a > b and a === b on numbers: every comparison with NaN is false
JsLt(a, b) == a.k = "num" /\ a.n < b
JsGt(a, b) == a.k = "num" /\ a.n > b
JsStrictEqNum(a, b) == a.k = "num" /\ a.n = b

\* a - b on numbers
JsMinus(a, b) == IF a.k = "num" /\ b.k = "num" THEN Num(a.n - b.n) ELSE NaN

startsWith(v, tok) == v.k = "str" /\ Len(v.s) > 0 /\ v.s[1] = tok
endsWith(v, tok) == v.k = "str" /\ Len(v.s) > 0 /\ v.s[Len(v.s)] = tok

(***************************************************************************)
(* URLs are strings over the characters below.  "s" stands for the scheme  *)
(* and authority prefix "http://host/", "b" for the data-saver prefix      *)
(* "http://1.1.x.y/bmi/", "z" for an unreserved character.                 *)
(***************************************************************************)
HexDigits == {"0", "2", "5"}

HexDecode(a, b) ==
  CASE a = "2" /\ b = "0" -> " "
    [] a = "2" /\ b = "5" -> "%"

RECURSIVE decodeChars(_)
\* the decoded characters, or <<"!">> in front of the rest when an escape is malformed
decodeChars(s) ==
  IF s = <<>> THEN <<>>
  ELSE IF Head(s) # "%" THEN <<Head(s)>> \o decodeChars(Tail(s))
  ELSE IF Len(s) >= 3 /\ s[2] \in HexDigits /\ s[3] \in HexDigits
       THEN <<HexDecode(s[2], s[3])>> \o decodeChars(SubSeq(s, 4, Len(s)))
       ELSE <<"!">>

\* decodeURIComponent: ok = FALSE when it throws URIError
decodeURIComponent(v) ==
  LET d == decodeChars(v.s)
  IN  [ok |-> \A i \in 1..Len(d) : d[i] # "!", v |-> Str(d)]

RECURSIVE encodeChars(_)
encodeChars(s) ==
  IF s = <<>> THEN <<>>
  ELSE (CASE Head(s) = " " -> <<"%", "2", "0">>
          [] Head(s) = "%" -> <<"%", "2", "5">>
          [] OTHER -> <<Head(s)>>) \o encodeChars(Tail(s))

\* encodeURI: space and "%" are escaped, reserved and unreserved characters kept
encodeURI(v) == Str(encodeChars(v.s))

\* new URL(x) succeeds on an absolute URL only
IsAbsoluteURL(v) == v.k = "str" /\ Len(v.s) > 0 /\ v.s[1] = "s"

(***************************************************************************)
(* The response object (http.ServerResponse, with Express's status/send).  *)
(* hdr holds the headers set so far under their lower-case names;          *)
(* sentStatus/sentHdr are the status line and header block as generated    *)
(* (by writeHead, or implicitly by the first write or end); a run of       *)
(* response calls is threaded through m = [res, exc], exc recording that   *)
(* a call threw, after which the remaining calls of the run are skipped.   *)
(* endCalls and lateWrites count the calls of end and the writes after     *)
(* end; redirected records that a redirect found the response not started; *)
(* lateHeaders counts the setHeader calls made once the header block       *)
(* exists.  buffered is the number of chunks written and not yet taken by  *)
(* the client socket; closed records that the client has disconnected.     *)
(***************************************************************************)
HeaderNames ==
  {"location", "content-length", "content-type", "content-encoding",
   "cache-control", "expires", "date", "etag",
   "accept-ranges", "content-range",
   "access-control-allow-origin", "cross-origin-resource-policy",
   "cross-origin-embedder-policy", "x-proxy-bypass",
   "x-original-size", "x-bytes-saved"}

NoHeaders == [h \in HeaderNames |-> Undefined]

NewResponse ==
  [statusCode |-> 200, statusFn |-> TRUE, hdr |-> NoHeaders,
   headersSent |-> FALSE, sentStatus |-> 0, sentHdr |-> NoHeaders,
   finished |-> FALSE, endCalls |-> 0, lateWrites |-> 0, body |-> <<>>,
   redirected |-> FALSE, lateHeaders |-> 0, buffered |-> 0, closed |-> FALSE]

Run(r) == [res |-> r, exc |-> FALSE]

\* res.setHeader(name, value): throws ERR_HTTP_HEADERS_SENT once the header block exists
SetHeader(m, name, v) ==
  IF m.exc THEN m
  ELSE IF m.res.headersSent THEN [m EXCEPT !.exc = TRUE, !.res.lateHeaders = @ + 1]
  ELSE [m EXCEPT !.res.hdr[name] = Some(v)]

\* res.removeHeader(name): throws ERR_HTTP_HEADERS_SENT once the header block exists
RemoveHeader(m, name) ==
  IF m.exc THEN m
  ELSE IF m.res.headersSent THEN [m EXCEPT !.exc = TRUE]
  ELSE [m EXCEPT !.res.hdr[name] = Undefined]

\* the implicit header: status line and header block are fixed at the first write or end
FlushHead(r) ==
  IF r.headersSent THEN r
  ELSE [r EXCEPT !.headersSent = TRUE, !.sentStatus = r.statusCode, !.sentHdr = r.hdr]

\* res.writeHead(code, headers): merges the headers and generates the header block
WriteHead(m, code, hs) ==
  IF m.exc THEN m
  ELSE IF m.res.headersSent THEN [m EXCEPT !.exc = TRUE, !.res.lateHeaders = @ + 1]
  ELSE LET merged == [h \in HeaderNames |->
                        IF h \in DOMAIN hs THEN Some(hs[h]) ELSE m.res.hdr[h]]
       IN  [m EXCEPT !.res = FlushHead([m.res EXCEPT !.statusCode = code, !.hdr = merged])]

\* res.write(chunk): after end the chunk is dropped (write-after-end error event), and
\* so it is once the client has disconnected; otherwise it joins the write buffer
Write(m, chunk) ==
  IF m.exc THEN m
  ELSE IF m.res.finished THEN [m EXCEPT !.res.lateWrites = @ + 1]
  ELSE IF m.res.closed THEN m
  ELSE [m EXCEPT !.res = [FlushHead(m.res) EXCEPT !.body = Append(@, chunk),
                                                  !.buffered = @ + 1]]

\* res.end(data): data is a sequence of chunks; a second end is ignored by the stream,
\* and the data is dropped once the client has disconnected
End(m, data) ==
  IF m.exc THEN m
  ELSE IF m.res.finished THEN [m EXCEPT !.res.endCalls = @ + 1]
  ELSE IF m.res.closed THEN [m EXCEPT !.res.finished = TRUE, !.res.endCalls = @ + 1]
  ELSE [m EXCEPT !.res = [FlushHead(m.res) EXCEPT !.body = @ \o data,
                                                  !.buffered = @ + Len(data),
                                                  !.finished = TRUE,
                                                  !.endCalls = @ + 1]]

\* res.statusCode = code
SetStatusCode(m, code) == IF m.exc THEN m ELSE [m EXCEPT !.res.statusCode = code]

\* res.status = code: replaces the method res.status by a number, statusCode is untouched
AssignStatusProperty(m, code) == IF m.exc THEN m ELSE [m EXCEPT !.res.statusFn = FALSE]

\* Express res.status(code): a TypeError when res.status is no longer a function
Status(m, code) ==
  IF m.exc THEN m
  ELSE IF ~m.res.statusFn THEN [m EXCEPT !.exc = TRUE]
  ELSE [m EXCEPT !.res.statusCode = code]

\* Express res.send(text): default Content-Type, Content-Length, ETag, then end(text)
Send(m, text) ==
  LET m1 == IF (~m.exc) /\ m.res.hdr["content-type"] = Undefined
            THEN SetHeader(m, "content-type", Str(<<"text", "/", "html">>)) ELSE m
      m2 == SetHeader(m1, "content-length", Num(1))
      m3 == IF (~m2.exc) /\ m2.res.hdr["etag"] = Undefined
            THEN SetHeader(m2, "etag", Str(<<"W/">>)) ELSE m2
  IN  End(m3, <<text>>)

(***************************************************************************)
(* Policy                                                                  *)
(***************************************************************************)
DEFAULT_QUALITY == 40
MIN_COMPRESS_LENGTH == 1024
MIN_TRANSPARENT_COMPRESS_LENGTH == MIN_COMPRESS_LENGTH * 100

\* shouldCompress without the test of the Range header
shouldCompress_NoRange(p, range) ==
  IF ~startsWith(p.originType, "image") THEN FALSE
  ELSE IF JsStrictEqNum(p.originSize, 0) THEN FALSE
  ELSE IF p.webp /\ JsLt(p.originSize, MIN_COMPRESS_LENGTH) THEN FALSE
  ELSE IF (~p.webp)
          /\ (endsWith(p.originType, "png") \/ endsWith(p.originType, "gif"))
          /\ JsLt(p.originSize, MIN_TRANSPARENT_COMPRESS_LENGTH) THEN FALSE
  ELSE TRUE

\* shouldCompress with the png/gif threshold applied to gif only
shouldCompress_GifOnly(p, range) ==
  IF ~startsWith(p.originType, "image") THEN FALSE
  ELSE IF JsStrictEqNum(p.originSize, 0) THEN FALSE
  ELSE IF TruthyOpt(range) THEN FALSE
  ELSE IF p.webp /\ JsLt(p.originSize, MIN_COMPRESS_LENGTH) THEN FALSE
  ELSE IF (~p.webp)
          /\ endsWith(p.originType, "gif")
          /\ JsLt(p.originSize, MIN_TRANSPARENT_COMPRESS_LENGTH) THEN FALSE
  ELSE TRUE

\* shouldCompress, the chain of early returns (p = req.params, range = req.headers.range)
shouldCompress(p, range) ==
  IF ~startsWith(p.originType, "image") THEN FALSE
  ELSE IF JsStrictEqNum(p.originSize, 0) THEN FALSE
  ELSE IF TruthyOpt(range) THEN FALSE
  ELSE IF p.webp /\ JsLt(p.originSize, MIN_COMPRESS_LENGTH) THEN FALSE
  ELSE IF (~p.webp)
          /\ (endsWith(p.originType, "png") \/ endsWith(p.originType, "gif"))
          /\ JsLt(p.originSize, MIN_TRANSPARENT_COMPRESS_LENGTH) THEN FALSE
  ELSE TRUE

\* the boolean expression with `<=` in place of `<` at both thresholds
shouldCompressExpr_Inclusive(p, range) ==
  /\ startsWith(p.originType, "image")
  /\ JsGt(p.originSize, 0)
  /\ ~TruthyOpt(range)
  /\ ~(p.webp /\ JsLt(p.originSize, MIN_COMPRESS_LENGTH + 1))
  /\ ~((~p.webp)
       /\ (endsWith(p.originType, "png") \/ endsWith(p.originType, "gif"))
       /\ JsLt(p.originSize, MIN_TRANSPARENT_COMPRESS_LENGTH + 1))

\* shouldCompress, the single boolean expression
shouldCompressExpr(p, range) ==
  /\ startsWith(p.originType, "image")
  /\ JsGt(p.originSize, 0)
  /\ ~TruthyOpt(range)
  /\ ~(p.webp /\ JsLt(p.originSize, MIN_COMPRESS_LENGTH))
  /\ ~((~p.webp)
       /\ (endsWith(p.originType, "png") \/ endsWith(p.originType, "gif"))
       /\ JsLt(p.originSize, MIN_TRANSPARENT_COMPRESS_LENGTH))

(***************************************************************************)
(* Error/Redirect handler, one definition per form found in the source     *)
(***************************************************************************)
CacheHeaders == <<"cache-control", "expires", "date", "etag">>

\* the guard of redirect has passed: headersSent was false
Redirecting(m) == [m EXCEPT !.res.redirected = TRUE]

RemoveCacheHeaders(m) ==
  RemoveHeader(RemoveHeader(RemoveHeader(RemoveHeader(m,
    CacheHeaders[1]), CacheHeaders[2]), CacheHeaders[3]), CacheHeaders[4])

\* redirect without its first line
redirect_a_NoGuard(m, p) ==
  IF m.exc THEN m
  ELSE End(AssignStatusProperty(
             SetHeader(RemoveCacheHeaders(SetHeader(Redirecting(m), "content-length", Num(0))),
                       "location", encodeURI(p.url)),
             302),
           <<>>)

\* redirect of proxy1.js 37-48: setHeader/removeHeader, `res.status = 302`, end
redirect_a(m, p) ==
  IF m.exc \/ m.res.headersSent THEN m
  ELSE End(AssignStatusProperty(
             SetHeader(RemoveCacheHeaders(SetHeader(Redirecting(m), "content-length", Num(0))),
                       "location", encodeURI(p.url)),
             302),
           <<>>)

\* redirect of proxy1.js 248-257: writeHead(302, ...), then removeHeader, then end
redirect_b(m, p) ==
  IF m.exc \/ m.res.headersSent THEN m
  ELSE End(RemoveCacheHeaders(
             WriteHead(Redirecting(m), 302,
                       [h \in {"location", "content-length"} |->
                          IF h = "location" THEN encodeURI(p.url) ELSE Txt(0, <<>>)])),
           <<>>)

\* redirect of part_004 44-50: statusCode = 302, Location, end
redirect_h(m, p) ==
  IF m.exc \/ m.res.headersSent THEN m
  ELSE End(SetHeader(SetStatusCode(Redirecting(m), 302), "location", encodeURI(p.url)),
           <<>>)

(***************************************************************************)
(* Inputs: the inbound request, and what the origin and the HTTP client    *)
(* can answer.                                                             *)
(***************************************************************************)
Variants ==
  {"proxy1_a", "proxy1_b", "part003_b", "part004_a",
   "part002", "part003_a", "part004_b", "part004_d"}

\* the handlers built from _onRequestResponse/_onRequestError of proxy1.js 127-194
SuperagentVariants == {"proxy1_a", "part003_b", "part002", "part003_a"}

\* greatest number of body chunks a stream delivers
MaxChunks == 2

\* number of chunks in the write buffer of the response from which write returns false
HighWaterMark == 1

VIA_BANDWIDTH_HERO == Str(<<"1.1 bandwidth-hero">>)
VIA_MYAPP_HERO == Str(<<"1.1 myapp-hero">>)
Loopback == {Str(<<"127.0.0.1">>), Str(<<"::1">>)}

\* req.query.url as handed over by the framework's query parser
QueryUrls ==
  {Undefined,
   Some(Str(<<"s", "z">>)),
   Some(Str(<<"s", "%", "2", "0">>)),
   Some(Str(<<"s", "%", "z">>)),
   Some(Str(<<"z">>)),
   Some(Str(<<"b", "s", "z">>))}

\* a flag parameter: absent, "1", or present with an empty value (?jpeg or ?jpeg=)
QueryFlags == {Undefined, Some(Txt(1, <<>>)), Some(Str(<<>>))}
QueryBw == {Undefined, Some(Txt(0, <<>>)), Some(Str(<<>>))}
QueryL == {Undefined, Some(Txt(80, <<>>)), Some(Txt(500, <<>>)), Some(Txt(-5, <<>>))}
RangeHeaders == {Undefined, Some(Str(<<"bytes=0-">>))}
ViaHeaders == {Undefined, Some(VIA_BANDWIDTH_HERO), Some(VIA_MYAPP_HERO)}

\* the combinations of jpeg, bw and l carried by the requests
QueryTuning ==
  {g \in QueryFlags \X QueryBw \X QueryL :
     g \in {<<Undefined, Undefined, Undefined>>,
            <<Some(Txt(1, <<>>)), Some(Txt(0, <<>>)), Some(Txt(80, <<>>))>>,
            <<Some(Str(<<>>)), Some(Str(<<>>)), Some(Txt(500, <<>>))>>,
            <<Undefined, Undefined, Some(Txt(-5, <<>>))>>}}

\* the combinations of Via header and caller address carried by the requests
QueryCallers ==
  {v \in ViaHeaders \X ({Str(<<"9.9.9.9">>)} \cup Loopback) :
     v \in {<<Undefined, Str(<<"9.9.9.9">>)>>,
            <<Some(VIA_BANDWIDTH_HERO), Str(<<"127.0.0.1">>)>>,
            <<Some(VIA_MYAPP_HERO), Str(<<"::1">>)>>}}

\* the other inbound headers that go with each caller: x-forwarded-for, cookie, dnt,
\* referer and authorization
CallerHeaders(ip) ==
  IF ip = Str(<<"9.9.9.9">>)
  THEN [xff |-> Some(Str(<<"8.8.8.8">>)), cookie |-> Some(Str(<<"sid=1">>)),
        dnt |-> Undefined, referer |-> Some(Str(<<"page">>)),
        authorization |-> Some(Str(<<"Basic">>))]
  ELSE IF ip = Str(<<"::1">>)
  THEN [xff |-> Undefined, cookie |-> Some(Str(<<"sid=2">>)), dnt |-> Some(Txt(1, <<>>)),
        referer |-> Undefined, authorization |-> Undefined]
  ELSE [xff |-> Undefined, cookie |-> Undefined, dnt |-> Undefined,
        referer |-> Undefined, authorization |-> Some(Str(<<"Bearer">>))]

Requests ==
  {[url |-> u, jpeg |-> g[1], bw |-> g[2], l |-> g[3], range |-> r, via |-> v[1],
    xff |-> CallerHeaders(v[2]).xff, ip |-> v[2],
    cookie |-> CallerHeaders(v[2]).cookie, dnt |-> CallerHeaders(v[2]).dnt,
    referer |-> CallerHeaders(v[2]).referer,
    authorization |-> CallerHeaders(v[2]).authorization] :
     u \in QueryUrls, r \in RangeHeaders, g \in QueryTuning, v \in QueryCallers}

\* the header names of an upstream request
OutboundNames ==
  {"cookie", "dnt", "referer", "range", "user-agent", "x-forwarded-for", "via",
   "authorization"}

NoOutbound ==
  [method |-> "", headers |-> [h \in OutboundNames |-> Undefined], redirects |-> 0]

\* USER_AGENT, or the text of a generated UserAgent
UserAgentOf(v) ==
  IF v \in {"proxy1_b", "part004_b"}
  THEN Str(<<"Bandwidth-Hero Compressor">>)
  ELSE Str(<<"generated">>)

\* the Via value the handler puts on the upstream request
ViaOf(v) == IF v = "part004_a" THEN VIA_MYAPP_HERO ELSE VIA_BANDWIDTH_HERO

\* redirects the HTTP client follows by itself when .redirects is not called
SUPERAGENT_REDIRECTS == 5

\* the number of redirects the client follows: .redirects(4) where the handler calls
\* it, the client's own limit where it does not (maxRedirections is not a setting of
\* the client), none with http.request
RedirectsOf(v) ==
  IF v \in {"proxy1_b", "part004_b"} THEN SUPERAGENT_REDIRECTS
  ELSE IF v = "part004_a" THEN 0
  ELSE 4

\* the upstream request: GET with the headers object the handler builds
Outbound(v, r) ==
  [method |-> "GET",
   headers |-> [h \in OutboundNames |->
     CASE h \in {"cookie", "dnt", "referer", "range"} -> r[h]
       [] h = "user-agent" -> Some(UserAgentOf(v))
       [] h = "x-forwarded-for" -> Some(IF TruthyOpt(r.xff) THEN r.xff[1] ELSE r.ip)
       [] h = "via" -> Some(ViaOf(v))
       [] OTHER -> Undefined],
   redirects |-> RedirectsOf(v)]

OriginTypes ==
  {Undefined,
   Some(Str(<<"image", "/", "png">>)),
   Some(Str(<<"image", "/", "jpeg">>)),
   Some(Str(<<"text", "/", "html">>))}

OriginLengths ==
  {Undefined, Some(Txt(0, <<>>)), Some(Txt(500, <<>>)), Some(Txt(50000, <<>>)),
   Some(Txt(200000, <<>>)), Some(Str(<<"abc">>))}

OriginLocations == {Undefined, Some(Str(<<"s", "z", "%", "2", "0">>))}

\* an origin response: 2xx with a body, or a redirect/error status;
\* error is the code of the error the client raised instead of a response ("" if none)
OriginResponses ==
  {[status |-> 200, location |-> Undefined, type |-> t, length |-> n, extra |-> x,
    error |-> ""] :
     t \in OriginTypes, n \in OriginLengths, x \in BOOLEAN}
  \cup
  {[status |-> c, location |-> loc, type |-> Some(Str(<<"text", "/", "html">>)),
    length |-> Some(Txt(500, <<>>)), extra |-> x, error |-> ""] :
     c \in {301, 404, 500}, loc \in OriginLocations, x \in BOOLEAN}

NoOrigin ==
  [status |-> 0, location |-> Undefined, type |-> Undefined, length |-> Undefined,
   extra |-> FALSE, error |-> ""]

NetworkErrors == {"ENOTFOUND", "ETIMEDOUT"}

\* the headers of an origin response; with extra the origin sends caching headers, a
\* content encoding, Accept-Ranges and, being itself such a proxy, X-Proxy-Bypass
OriginHeaders(o) ==
  [h \in HeaderNames |->
     CASE h = "location" -> o.location
       [] h = "content-type" -> o.type
       [] h = "content-length" -> o.length
       [] h \in {"cache-control", "expires", "date", "etag"} ->
            IF o.extra THEN Some(Str(<<h>>)) ELSE Undefined
       [] h = "content-encoding" -> IF o.extra THEN Some(Str(<<"gzip">>)) ELSE Undefined
       [] h = "accept-ranges" -> IF o.extra THEN Some(Str(<<"bytes">>)) ELSE Undefined
       [] h = "x-proxy-bypass" -> IF o.extra THEN Some(Txt(1, <<>>)) ELSE Undefined
       [] OTHER -> Undefined]

\* what a failed fetch rejects with: err.code is error, err.status is status (0: none),
\* err.response.headers.location is location.  A URL that is not absolute is refused
\* by the client; otherwise the connection fails or the origin answers outside 2xx.
FetchErrors(url) ==
  IF ~IsAbsoluteURL(url)
  THEN {[NoOrigin EXCEPT !.error = "ERR_INVALID_URL"]}
  ELSE {[NoOrigin EXCEPT !.error = e] : e \in NetworkErrors}
       \cup {[o EXCEPT !.error = "HTTP_STATUS"] :
               o \in {r \in OriginResponses : r.status >= 300}}

\* sizes the encoder can report for its output
EncodedSizes == {300, 60000}

BodyText(t) == [src |-> "text", t |-> t, i |-> 0]
Chunk(src, i) == [src |-> src, t |-> "", i |-> i]

NoParams ==
  [url |-> Str(<<>>), webp |-> TRUE, grayscale |-> TRUE, quality |-> Num(0),
   originType |-> Str(<<>>), originSize |-> Num(0)]

VARIABLES
  variant,   \* which handler serves the request
  req,       \* the inbound request: query parameters, headers, caller address
  params,    \* req.params
  res,       \* the response object
  origin,    \* the origin response handed to the handler
  pc,        \* where the request is: handler, pending callback, or finished
  fetches,   \* number of upstream requests issued
  outbound,  \* the upstream request as the handler built it
  stream,    \* the stream now feeding the response: chunks delivered, encoded size,
             \* whether the encoder or the stream has reported an error, and the
             \* origin chunks the encoder was given, and whose output lies in the
             \* file at outputFilePath, the format of the cache entry found, and
             \* (in SpecResize) the probed height and the height of the resize planned
  decision   \* the result of shouldCompress for this request, and which form computed it

vars == <<variant, req, params, res, origin, pc, fetches, outbound, stream, decision>>

NoStream ==
  [n |-> 0, size |-> 0, err |-> FALSE, format |-> "", fed |-> <<>>, file |-> "none",
   cached |-> "", height |-> 0, resize |-> 0, quality |-> Num(0)]

\* the chunks of the origin body, in the order the origin sends them
OriginBody == [i \in 1..MaxChunks |-> i]

\* how compress hands the origin body to the codec object that probes the metadata and
\* to the one that encodes: "body" (the object is constructed from the input), "pipe"
\* (the input is piped into it), "none" (the input never reaches it); same tells
\* whether the two are one object
Wiring(v) ==
  CASE v = "proxy1_b" -> [probe |-> "pipe", encoder |-> "none", same |-> FALSE]
    [] v \in {"part004_a", "part004_b"} ->
         [probe |-> "pipe", encoder |-> "pipe", same |-> TRUE]
    [] v = "part004_d" -> [probe |-> "none", encoder |-> "body", same |-> FALSE]
    [] OTHER -> [probe |-> "body", encoder |-> "body", same |-> FALSE]

\* the origin chunks that reach the encoder: an object constructed from the body reads
\* all of it, a pipe delivers each chunk once to the object it feeds
EncoderInput(v) ==
  LET w == Wiring(v)
  IN  IF w.encoder = "none" \/ (w.encoder = "pipe" /\ w.probe = "pipe" /\ ~w.same)
      THEN <<>>
      ELSE OriginBody

\* the encoder has produced size bytes in format fmt, n chunks of them delivered
Encoded(n, size, fmt) ==
  [n |-> n, size |-> size, err |-> FALSE, format |-> fmt, fed |-> EncoderInput(variant),
   file |-> stream.file, cached |-> stream.cached, height |-> stream.height,
   resize |-> stream.resize, quality |-> stream.quality]
NoDecision == [by |-> "none", result |-> FALSE]
Decided(by, result) == [by |-> by, result |-> result]

Init ==
  /\ variant \in Variants
  /\ req \in Requests
  /\ params = NoParams
  /\ res = NewResponse
  /\ origin = NoOrigin
  /\ pc = "start"
  /\ fetches = 0
  /\ outbound = NoOutbound
  /\ stream = NoStream
  /\ decision = NoDecision

\* redirects the client has followed when it hands over an answer: a redirect answer
\* is handed over only once the client has followed as many as it is set to follow, any
\* other answer comes straight away or at the end of such a chain
Hops(o) ==
  IF o.status >= 300 /\ o.status < 400 /\ TruthyOpt(o.location)
  THEN {outbound.redirects}
  ELSE {0, outbound.redirects}

\* where control is after a run of response calls: an exception leaves the handler
After(m, next, escaped) == IF m.exc THEN escaped ELSE next

(***************************************************************************)
(* Steps shared by the variants                                            *)
(***************************************************************************)
\* `req.query.bw != 0`: loose comparison, the text is converted to a number
grayscaleLoose(bw) == IF bw = Undefined THEN TRUE ELSE ~JsStrictEqNum(ToNumber(bw[1]), 0)

\* `req.query.bw !== '0'`: strict comparison with the string "0"
grayscaleStrict(bw) == bw # Some(Txt(0, <<>>))

\* `parseInt(req.query.l, 10)` alone, with no value to fall back on
quality_NoFallback(l) == parseInt(l)

\* `parseInt(req.query.l, 10) || DEFAULT_QUALITY`
quality(l) == LET q == parseInt(l) IN IF Truthy(q) THEN q ELSE Num(DEFAULT_QUALITY)

\* copyHeaders: every origin header is set on the response, a throwing setHeader is logged
copyHeaders(o, m) ==
  IF m.exc \/ m.res.headersSent THEN m
  ELSE [m EXCEPT !.res.hdr = [h \in HeaderNames |->
                                IF OriginHeaders(o)[h] # Undefined
                                THEN OriginHeaders(o)[h] ELSE m.res.hdr[h]]]

\* Content-Encoding: identity and the three cross-origin headers
SetCorsHeaders(m) ==
  SetHeader(SetHeader(SetHeader(m,
    "access-control-allow-origin", Str(<<"*">>)),
    "cross-origin-resource-policy", Str(<<"cross-origin">>)),
    "cross-origin-embedder-policy", Str(<<"unsafe-none">>))

\* originType and originSize as read from the origin headers
WithOriginMeta(p, o) ==
  [p EXCEPT !.originType = IF TruthyOpt(o.type) THEN o.type[1] ELSE Str(<<>>),
            !.originSize = parseInt(IF TruthyOpt(o.length) THEN o.length
                                    ELSE Some(Txt(0, <<>>)))]

BypassHeaders == <<"accept-ranges", "content-type", "content-length", "content-range">>

CopyIfPresent(m, o, h) ==
  IF TruthyOpt(OriginHeaders(o)[h]) THEN SetHeader(m, h, OriginHeaders(o)[h][1]) ELSE m

\* the passthrough branch up to the pipe: X-Proxy-Bypass and the four copied headers
Bypass(m, o) ==
  CopyIfPresent(CopyIfPresent(CopyIfPresent(CopyIfPresent(
    SetHeader(m, "x-proxy-bypass", Num(1)),
    o, BypassHeaders[1]), o, BypassHeaders[2]), o, BypassHeaders[3]), o, BypassHeaders[4])

Format(p) == IF p.webp THEN "webp" ELSE "jpeg"

(***************************************************************************)
(* proxy1.js 127-194 (and the same handler in part_003 300-368)            *)
(***************************************************************************)
\* _onRequestError
onRequestError_a(m, p, err) ==
  IF err.error = "ERR_INVALID_URL"
  THEN End(SetStatusCode(m, 400), <<BodyText("Invalid URL")>>)
  ELSE redirect_a(m, p)

\* _onRequestResponse: the run of response calls, req.params, and what is pending next
onRequestResponse_a(m, p, o, range) ==
  IF o.status >= 400
  THEN [m |-> redirect_a(m, p), p |-> p, next |-> "done", branch |-> FALSE]
  ELSE IF o.status >= 300 /\ TruthyOpt(o.location)
  THEN LET p1 == [p EXCEPT !.url = o.location[1]]
       IN  [m |-> redirect_a(m, p1), p |-> p1, next |-> "done", branch |-> FALSE]
  ELSE LET m1 == SetCorsHeaders(SetHeader(copyHeaders(o, m),
                                          "content-encoding", Str(<<"identity">>)))
           p1 == WithOriginMeta(p, o)
       IN  IF shouldCompress(p1, range)
           THEN [m |-> m1, p |-> p1, next |-> "metadata", branch |-> TRUE]
           ELSE [m |-> Bypass(m1, o), p |-> p1, next |-> "piping", branch |-> TRUE]

\* hhproxy up to the await
hhproxy_a ==
  /\ pc = "start"
  /\ variant \in SuperagentVariants \cup {"part004_d"}
  /\ IF ~TruthyOpt(req.url)
     THEN /\ res' = End(Run(res), <<BodyText("bandwidth-hero-proxy")>>).res
          /\ pc' = "done"
          /\ UNCHANGED <<params, fetches, outbound>>
     ELSE LET d == decodeURIComponent(req.url[1])
          IN  IF ~d.ok
              THEN /\ pc' = "rejected"
                   /\ UNCHANGED <<params, res, fetches, outbound>>
              ELSE /\ params' = [NoParams EXCEPT !.url = d.v,
                                                 !.webp = ~TruthyOpt(req.jpeg),
                                                 !.grayscale = grayscaleLoose(req.bw),
                                                 !.quality = quality(req.l)]
                   /\ fetches' = fetches + 1
                   /\ outbound' = Outbound(variant, req)
                   /\ pc' = "awaitFetch"
                   /\ UNCHANGED res
  /\ UNCHANGED <<variant, req, origin, stream, decision>>

\* the awaited request resolves: _onRequestResponse inside the try block
FetchResolve_a ==
  /\ pc = "awaitFetch"
  /\ variant \in SuperagentVariants
  /\ IsAbsoluteURL(params.url)
  /\ \E o \in OriginResponses :
       LET r == onRequestResponse_a(Run(res), params, o, req.range)
           caught == onRequestError_a(Run(r.m.res), r.p, [NoOrigin EXCEPT !.error = "THROWN"])
       IN  /\ origin' = o
           /\ fetches' \in {fetches + k : k \in Hops(o)}
           /\ params' = r.p
           /\ res' = IF r.m.exc THEN caught.res ELSE r.m.res
           /\ pc' = IF r.m.exc THEN After(caught, "done", "rejected")
                    ELSE IF variant = "part002" /\ r.next = "metadata" THEN "cache"
                    ELSE r.next
           /\ decision' = IF r.branch THEN Decided("chain", r.next = "metadata")
                          ELSE decision
  /\ UNCHANGED <<variant, req, outbound, stream>>

\* the awaited request rejects: _onRequestError in the catch block
FetchReject_a ==
  /\ pc = "awaitFetch"
  /\ variant \in SuperagentVariants
  /\ \E err \in FetchErrors(params.url) :
       LET m == onRequestError_a(Run(res), params, err)
       IN  /\ origin' = err
           /\ fetches' \in {fetches + k : k \in Hops(err)}
           /\ res' = m.res
           /\ pc' = After(m, "done", "rejected")
  /\ UNCHANGED <<variant, req, params, outbound, stream, decision>>

(***************************************************************************)
(* Passthrough: originRes.body.pipe(res)                                   *)
(***************************************************************************)
\* a chunk of the origin stream; pipe pauses the source while write has returned false
PipeData ==
  /\ pc = "piping"
  /\ stream.n < MaxChunks
  /\ res.buffered < HighWaterMark
  /\ res' = Write(Run(res), Chunk("origin", stream.n + 1)).res
  /\ stream' = [stream EXCEPT !.n = @ + 1]
  /\ UNCHANGED <<variant, req, params, origin, pc, fetches, outbound, decision>>

\* the origin stream ends: pipe ends the response
PipeEnd ==
  /\ pc = "piping"
  /\ res' = End(Run(res), <<>>).res
  /\ pc' = "done"
  /\ UNCHANGED <<variant, req, params, origin, fetches, outbound, stream, decision>>

\* the origin stream fails: pipe unpipes and leaves the response open
PipeError ==
  /\ pc = "piping"
  /\ variant # "part004_d"
  /\ pc' = "stalled"
  /\ stream' = [stream EXCEPT !.err = TRUE]
  /\ UNCHANGED <<variant, req, params, res, origin, fetches, outbound, decision>>

(***************************************************************************)
(* compress of proxy1.js 54-123: metadata, toFile, then the temp file is   *)
(* streamed to the response                                                *)
(***************************************************************************)
\* the metadata callback
MetadataCb_a ==
  /\ pc = "metadata"
  /\ variant = "proxy1_a"
  /\ \E err \in BOOLEAN :
       /\ stream' = [stream EXCEPT !.err = err]
       /\ IF err
          THEN LET m == redirect_a(Run(res), params)
               IN  res' = m.res /\ pc' = After(m, "done", "uncaught")
          ELSE res' = res /\ pc' = "encoding"
  /\ UNCHANGED <<variant, req, params, origin, fetches, outbound, decision>>

\* the toFile callback: on success the headers are set and the read stream is opened
\* the toFile callback leaving Content-Type and Content-Length as copyHeaders set them
ToFileCb_a_KeepCopied ==
  /\ pc = "encoding"
  /\ variant = "proxy1_a"
  /\ \/ LET m == redirect_a(Run(res), params)
        IN  res' = m.res /\ pc' = After(m, "done", "uncaught") /\ stream' = [stream EXCEPT !.err = TRUE]
     \/ \E size \in EncodedSizes :
          LET m == SetHeader(SetHeader(Run(res),
                     "x-original-size", params.originSize),
                     "x-bytes-saved", JsMinus(params.originSize, Num(size)))
          IN  /\ res' = m.res
              /\ pc' = After(m, "fileStream", "uncaught")
              /\ stream' = [Encoded(0, size, Format(params)) EXCEPT
                              !.file = IF @ = "other" THEN "other" ELSE "self"]
  /\ UNCHANGED <<variant, req, params, origin, fetches, outbound, decision>>

ToFileCb_a ==
  /\ pc = "encoding"
  /\ variant = "proxy1_a"
  /\ \/ LET m == redirect_a(Run(res), params)
        IN  res' = m.res /\ pc' = After(m, "done", "uncaught") /\ stream' = [stream EXCEPT !.err = TRUE]
     \/ \E size \in EncodedSizes :
          LET m == SetHeader(SetHeader(SetHeader(SetHeader(Run(res),
                     "content-type", Str(<<"image", "/", Format(params)>>)),
                     "content-length", Num(size)),
                     "x-original-size", params.originSize),
                     "x-bytes-saved", JsMinus(params.originSize, Num(size)))
          IN  /\ res' = m.res
              /\ pc' = After(m, "fileStream", "uncaught")
              /\ stream' = [Encoded(0, size, Format(params)) EXCEPT
                              !.file = IF @ = "other" THEN "other" ELSE "self"]
  /\ UNCHANGED <<variant, req, params, origin, fetches, outbound, decision>>

\* compress of another request for the same format runs meanwhile: its toFile writes
\* the file at outputFilePath after this request's toFile has written it and before
\* the callback of this request opens it
OtherToFile_a ==
  /\ pc = "encoding"
  /\ variant = "proxy1_a"
  /\ stream.file # "other"
  /\ stream' = [stream EXCEPT !.file = "other"]
  /\ UNCHANGED <<variant, req, params, res, origin, pc, fetches, outbound, decision>>

\* a chunk read from the file at outputFilePath, which holds this request's output or
\* another's
FileChunk(owner, i) ==
  IF owner = "other" THEN [Chunk("file", i) EXCEPT !.t = "other"] ELSE Chunk("file", i)

\* fileStream 'data'
FileData_a ==
  /\ pc = "fileStream"
  /\ ~stream.err
  /\ stream.n < MaxChunks
  /\ res' = Write(Run(res), FileChunk(stream.file, stream.n + 1)).res
  /\ stream' = [stream EXCEPT !.n = @ + 1]
  /\ UNCHANGED <<variant, req, params, origin, pc, fetches, outbound, decision>>

\* fileStream 'error': redirect; the stream is destroyed and 'close' follows
FileError_a ==
  /\ pc = "fileStream"
  /\ ~stream.err
  /\ LET m == redirect_a(Run(res), params)
     IN  res' = m.res /\ pc' = After(m, "fileStream", "uncaught")
  /\ stream' = [stream EXCEPT !.err = TRUE]
  /\ UNCHANGED <<variant, req, params, origin, fetches, outbound, decision>>

\* fileStream 'end' (the temp file is unlinked) and 'close': res.end()
FileClose_a ==
  /\ pc = "fileStream"
  /\ res' = End(Run(res), <<>>).res
  /\ pc' = "done"
  /\ UNCHANGED <<variant, req, params, origin, fetches, outbound, stream, decision>>

(***************************************************************************)
(* compress of part_003 236-292: metadata, then toBuffer with a callback   *)
(***************************************************************************)
MetadataCb_t ==
  /\ pc = "metadata"
  /\ variant = "part003_b"
  /\ \E err \in BOOLEAN :
       /\ stream' = [stream EXCEPT !.err = err]
       /\ IF err
          THEN LET m == redirect_a(Run(res), params)
               IN  res' = m.res /\ pc' = After(m, "done", "uncaught")
          ELSE LET m1 == SetHeader(Run(res), "content-type",
                                   Str(<<"image", "/", Format(params)>>))
                   m2 == IF Truthy(params.originSize)
                         THEN SetHeader(m1, "x-original-size", params.originSize) ELSE m1
               IN  res' = m2.res /\ pc' = After(m2, "encoding", "uncaught")
  /\ UNCHANGED <<variant, req, params, origin, fetches, outbound, decision>>

\* the 'info'/'error' listener (when the codec emits the event) and the toBuffer callback
ToBufferCb_t ==
  /\ pc = "encoding"
  /\ variant = "part003_b"
  /\ \E ev \in BOOLEAN :
       \/ LET m1 == IF ev THEN redirect_a(Run(res), params) ELSE Run(res)
              m2 == redirect_a(m1, params)
          IN  res' = m2.res /\ pc' = After(m2, "done", "uncaught") /\ stream' = [stream EXCEPT !.err = TRUE]
       \/ \E size \in EncodedSizes :
            LET m1 == IF ev /\ Truthy(params.originSize)
                      THEN SetHeader(Run(res), "x-bytes-saved",
                                     JsMinus(params.originSize, Num(size)))
                      ELSE Run(res)
                m2 == End(SetHeader(m1, "content-length", Num(size)),
                          <<Chunk("buffer", 1)>>)
            IN  /\ res' = m2.res
                /\ pc' = After(m2, "done", "uncaught")
                /\ stream' = Encoded(1, size, Format(params))
  /\ UNCHANGED <<variant, req, params, origin, fetches, outbound, decision>>

(***************************************************************************)
(* proxy1.js 333-393: loop guard, awaited request, inline response         *)
(* handling, catch block                                                   *)
(***************************************************************************)
\* the loop guard: the proxy's own Via value on a request forwarded from loopback
LoopGuard(r, via) ==
  /\ r.via = Some(via)
  /\ (IF TruthyOpt(r.xff) THEN r.xff[1] ELSE r.ip) \in Loopback

\* hhproxy up to the await
hhproxy_b ==
  /\ pc = "start"
  /\ variant \in {"proxy1_b", "part004_b"}
  /\ IF ~TruthyOpt(req.url)
     THEN /\ res' = End(Run(res), <<BodyText("bandwidth-hero-proxy")>>).res
          /\ pc' = "done"
          /\ UNCHANGED <<params, fetches, outbound>>
     ELSE LET d == decodeURIComponent(req.url[1])
              p == [NoParams EXCEPT !.url = d.v,
                                    !.webp = ~TruthyOpt(req.jpeg),
                                    !.grayscale = grayscaleLoose(req.bw),
                                    !.quality = quality(req.l)]
              m == redirect_b(Run(res), p)
          IN  IF ~d.ok
              THEN /\ pc' = "rejected"
                   /\ UNCHANGED <<params, res, fetches, outbound>>
              ELSE IF LoopGuard(req, VIA_BANDWIDTH_HERO)
              THEN /\ params' = p
                   /\ res' = m.res
                   /\ pc' = After(m, "done", "rejected")
                   /\ UNCHANGED <<fetches, outbound>>
              ELSE /\ params' = p
                   /\ fetches' = fetches + 1
                   /\ outbound' = Outbound(variant, req)
                   /\ pc' = "awaitFetch"
                   /\ UNCHANGED res
  /\ UNCHANGED <<variant, req, origin, stream, decision>>

\* the catch block of hhproxy
catch_b(m, p, err) ==
  IF err.status = 404 \/ TruthyOpt(err.location)
  THEN redirect_b(m, p)
  ELSE Send(Status(m, 400), BodyText("Invalid URL"))

\* the awaited request resolves: the rest of the try block
FetchResolve_b ==
  /\ pc = "awaitFetch"
  /\ variant = "proxy1_b"
  /\ IsAbsoluteURL(params.url)
  /\ \E o \in OriginResponses :
       LET m1 == SetCorsHeaders(SetHeader(copyHeaders(o, Run(res)),
                                          "content-encoding", Str(<<"identity">>)))
           p1 == WithOriginMeta(params, o)
           comp == shouldCompressExpr(p1, req.range)
           m2 == IF comp THEN m1 ELSE Bypass(m1, o)
           caught == catch_b(Run(m2.res), p1, [NoOrigin EXCEPT !.error = "THROWN"])
       IN  /\ origin' = o
           /\ fetches' \in {fetches + k : k \in Hops(o)}
           /\ params' = p1
           /\ res' = IF m2.exc THEN caught.res ELSE m2.res
           /\ pc' = IF m2.exc THEN After(caught, "done", "rejected")
                    ELSE IF comp THEN "metadata" ELSE "piping"
           /\ decision' = Decided("expr", comp)
  /\ UNCHANGED <<variant, req, outbound, stream>>

\* the awaited request rejects: the catch block
FetchReject_b ==
  /\ pc = "awaitFetch"
  /\ variant = "proxy1_b"
  /\ \E err \in FetchErrors(params.url) :
       LET m == catch_b(Run(res), params, err)
       IN  /\ origin' = err
           /\ fetches' \in {fetches + k : k \in Hops(err)}
           /\ res' = m.res
           /\ pc' = After(m, "done", "rejected")
  /\ UNCHANGED <<variant, req, params, outbound, stream, decision>>

\* compress of proxy1.js 275-311: the metadata callback
MetadataCb_b ==
  /\ pc = "metadata"
  /\ variant = "proxy1_b"
  /\ \E err \in BOOLEAN :
       /\ stream' = [stream EXCEPT !.err = err]
       /\ IF err
          THEN LET m == redirect_b(Run(res), params)
               IN  res' = m.res /\ pc' = After(m, "done", "uncaught")
          ELSE res' = res /\ pc' = "encoding"
  /\ UNCHANGED <<variant, req, params, origin, fetches, outbound, decision>>

\* _sendResponse, the toBuffer callback
sendResponse_b ==
  /\ pc = "encoding"
  /\ variant = "proxy1_b"
  /\ \/ LET m == redirect_b(Run(res), params)
        IN  res' = m.res /\ pc' = After(m, "done", "uncaught") /\ stream' = [stream EXCEPT !.err = TRUE]
     \/ \E size \in EncodedSizes :
          LET m == End(Write(Status(
                     SetHeader(SetHeader(SetHeader(SetHeader(Run(res),
                       "content-type", Str(<<"image", "/", Format(params)>>)),
                       "content-length", Num(size)),
                       "x-original-size", params.originSize),
                       "x-bytes-saved", JsMinus(params.originSize, Num(size))),
                     200), Chunk("buffer", 1)), <<>>)
          IN  /\ res' = m.res
              /\ pc' = After(m, "done", "uncaught")
              /\ stream' = Encoded(1, size, Format(params))
  /\ UNCHANGED <<variant, req, params, origin, fetches, outbound, decision>>

(***************************************************************************)
(* part_004 53-179: http/https request with a response callback            *)
(***************************************************************************)
RECURSIVE replaceBmi(_)
\* url.replace(/http:\/\/1\.1\.\d\.\d\/bmi\/(https?:\/\/)?/i, 'http://'): first match only
replaceBmi(s) ==
  IF s = <<>> THEN <<>>
  ELSE IF Head(s) = "b"
  THEN <<"s">> \o (IF Len(s) >= 2 /\ s[2] = "s" THEN SubSeq(s, 3, Len(s)) ELSE Tail(s))
  ELSE <<Head(s)>> \o replaceBmi(Tail(s))

\* hhproxy up to originReq.end()
hhproxy_h ==
  /\ pc = "start"
  /\ variant = "part004_a"
  /\ IF ~TruthyOpt(req.url)
     THEN LET m == End(Status(Run(res), 400), <<BodyText("Invalid URL")>>)
          IN  /\ res' = m.res
              /\ pc' = After(m, "done", "thrown")
              /\ UNCHANGED <<params, fetches, outbound>>
     ELSE LET p == [NoParams EXCEPT !.url = Str(replaceBmi(req.url[1].s)),
                                    !.webp = ~TruthyOpt(req.jpeg),
                                    !.grayscale = grayscaleStrict(req.bw),
                                    !.quality = quality(req.l)]
              m == redirect_h(Run(res), p)
          IN  /\ params' = p
              /\ IF LoopGuard(req, VIA_MYAPP_HERO)
                 THEN /\ res' = m.res
                      /\ pc' = After(m, "done", "thrown")
                      /\ UNCHANGED <<fetches, outbound>>
                 ELSE IF ~IsAbsoluteURL(p.url)
                 THEN /\ pc' = "thrown"
                      /\ UNCHANGED <<res, fetches, outbound>>
                 ELSE /\ fetches' = fetches + 1
                      /\ outbound' = Outbound(variant, req)
                      /\ pc' = "awaitFetch"
                      /\ UNCHANGED res
  /\ UNCHANGED <<variant, req, origin, stream, decision>>

\* the response callback of requestModule.request
OriginResponse_h ==
  /\ pc = "awaitFetch"
  /\ variant = "part004_a"
  /\ \E o \in OriginResponses :
       LET redir == o.status >= 400 \/ (o.status >= 300 /\ TruthyOpt(o.location))
           m1 == SetCorsHeaders(SetHeader(copyHeaders(o, Run(res)),
                                          "content-encoding", Str(<<"identity">>)))
           p1 == WithOriginMeta(params, o)
           comp == shouldCompress(p1, req.range)
           m == IF redir THEN redirect_h(Run(res), params)
                ELSE IF comp THEN m1 ELSE Bypass(m1, o)
       IN  /\ origin' = o
           /\ params' = IF redir THEN params ELSE p1
           /\ res' = m.res
           /\ pc' = After(m, IF redir THEN "done"
                             ELSE IF comp THEN "metadata" ELSE "piping", "uncaught")
           /\ decision' = IF redir THEN decision ELSE Decided("chain", comp)
  /\ UNCHANGED <<variant, req, fetches, outbound, stream>>

\* originReq 'error'
OriginError_h ==
  /\ pc = "awaitFetch"
  /\ variant = "part004_a"
  /\ \E e \in NetworkErrors : origin' = [NoOrigin EXCEPT !.error = e]
  /\ LET m == redirect_h(Run(res), params)
     IN  res' = m.res /\ pc' = After(m, "done", "uncaught")
  /\ UNCHANGED <<variant, req, params, fetches, outbound, stream, decision>>

\* compress: the awaited metadata promise settles; on success the transformer is piped
Metadata_h ==
  /\ pc = "metadata"
  /\ variant = "part004_a"
  /\ \E err \in BOOLEAN :
       /\ stream' = [stream EXCEPT !.err = err]
       /\ IF err
          THEN LET m == redirect_h(Run(res), params)
               IN  res' = m.res /\ pc' = After(m, "done", "rejected")
          ELSE LET m1 == SetHeader(SetHeader(Run(res),
                           "content-type", Str(<<"image", "/", Format(params)>>)),
                           "x-original-size", params.originSize)
                   m == IF m1.exc THEN redirect_h(Run(res), params) ELSE m1
               IN  res' = m.res
                   /\ pc' = IF m1.exc THEN After(m, "done", "rejected") ELSE "transforming"
  /\ UNCHANGED <<variant, req, params, origin, fetches, outbound, decision>>

\* transformer 'info': Content-Length, X-Bytes-Saved, statusCode = 200
TransformInfo_h ==
  /\ pc = "transforming"
  /\ stream.size = 0
  /\ \E size \in EncodedSizes :
       LET m == SetStatusCode(SetHeader(SetHeader(Run(res),
                  "content-length", Num(size)),
                  "x-bytes-saved", JsMinus(params.originSize, Num(size))), 200)
       IN  /\ res' = m.res
           /\ pc' = After(m, "transforming", "uncaught")
           /\ stream' = Encoded(0, size, Format(params))
  /\ UNCHANGED <<variant, req, params, origin, fetches, outbound, decision>>

\* transformer 'data', piped to the response
TransformData_h ==
  /\ pc = "transforming"
  /\ stream.size > 0
  /\ stream.n < MaxChunks
  /\ res.buffered < HighWaterMark
  /\ res' = Write(Run(res), Chunk("encoder", stream.n + 1)).res
  /\ stream' = [stream EXCEPT !.n = @ + 1]
  /\ UNCHANGED <<variant, req, params, origin, pc, fetches, outbound, decision>>

\* transformer 'end': pipe ends the response
TransformEnd_h ==
  /\ pc = "transforming"
  /\ stream.size > 0
  /\ res' = End(Run(res), <<>>).res
  /\ pc' = "done"
  /\ UNCHANGED <<variant, req, params, origin, fetches, outbound, stream, decision>>

\* transformer 'error': no listener is registered, the event is an uncaught exception
TransformError_h ==
  /\ pc = "transforming"
  /\ pc' = "uncaught"
  /\ stream' = [stream EXCEPT !.err = TRUE]
  /\ UNCHANGED <<variant, req, params, res, origin, fetches, outbound, decision>>

(***************************************************************************)
(* compress of part_003 51-113: the transformer is read through its        *)
(* 'info', 'data', 'end' and 'error' listeners                             *)
(***************************************************************************)
\* the metadata promise settles: .then sets Content-Type, .catch redirects
MetadataThen_s ==
  /\ pc = "metadata"
  /\ variant = "part003_a"
  /\ \E err \in BOOLEAN :
       /\ stream' = [stream EXCEPT !.err = err]
       /\ IF err
          THEN LET m == redirect_a(Run(res), params)
               IN  res' = m.res /\ pc' = After(m, "done", "rejected")
          ELSE LET m1 == SetHeader(Run(res), "content-type",
                                   Str(<<"image", "/", Format(params)>>))
                   m == IF m1.exc THEN redirect_a(Run(m1.res), params) ELSE m1
               IN  res' = m.res
                   /\ pc' = IF m1.exc THEN After(m, "done", "rejected") ELSE "streaming"
  /\ UNCHANGED <<variant, req, params, origin, fetches, outbound, decision>>

\* transformer 'info': Content-Length, x-original-size, x-bytes-saved
StreamInfo_s ==
  /\ pc = "streaming"
  /\ stream.size = 0
  /\ ~stream.err
  /\ \E size \in EncodedSizes :
       LET m == SetHeader(SetHeader(SetHeader(Run(res),
                  "content-length", Num(size)),
                  "x-original-size", params.originSize),
                  "x-bytes-saved", JsMinus(params.originSize, Num(size)))
       IN  /\ res' = m.res
           /\ pc' = After(m, "streaming", "uncaught")
           /\ stream' = Encoded(0, size, Format(params))
  /\ UNCHANGED <<variant, req, params, origin, fetches, outbound, decision>>

\* the 'data' listener running before the 'info' listener has set the headers
StreamData_s_BeforeInfo ==
  /\ pc = "streaming"
  /\ stream.n < MaxChunks
  /\ res' = Write(Run(res), Chunk("encoder", stream.n + 1)).res
  /\ stream' = [stream EXCEPT !.n = @ + 1]
  /\ UNCHANGED <<variant, req, params, origin, pc, fetches, outbound, decision>>

\* transformer 'data': res.write(chunk), whatever write returns
StreamData_s ==
  /\ pc = "streaming"
  /\ stream.size > 0
  /\ stream.n < MaxChunks
  /\ res' = Write(Run(res), Chunk("encoder", stream.n + 1)).res
  /\ stream' = [stream EXCEPT !.n = @ + 1]
  /\ UNCHANGED <<variant, req, params, origin, pc, fetches, outbound, decision>>

\* transformer 'end': res.end()
StreamEnd_s ==
  /\ pc = "streaming"
  /\ stream.size > 0
  /\ res' = End(Run(res), <<>>).res
  /\ pc' = "done"
  /\ UNCHANGED <<variant, req, params, origin, fetches, outbound, stream, decision>>

\* transformer 'error': redirect, which returns at once when the headers are sent
StreamError_s ==
  /\ pc = "streaming"
  /\ LET m == redirect_a(Run(res), params)
     IN  /\ res' = m.res
         /\ pc' = After(m, IF m.res.finished THEN "done" ELSE "stalled", "uncaught")
  /\ stream' = [stream EXCEPT !.err = TRUE]
  /\ UNCHANGED <<variant, req, params, origin, fetches, outbound, decision>>

(***************************************************************************)
(* compress of part_002 61-141: cache lookup, metadata, toBuffer           *)
(***************************************************************************)
\* the formats a cache entry can hold: the key names the URL, the quality and the
\* grayscale flag of the request that stored it, not its format
CachedFormats == {"webp", "jpeg"}

\* the callback of client.get with the body of the hit branch in working order: the
\* cached bytes are sent
CacheGet_r_Serving ==
  /\ pc = "cache"
  /\ variant = "part002"
  /\ \/ /\ pc' = "rejected"
        /\ UNCHANGED <<res, stream>>
     \/ \E f \in CachedFormats :
          LET m == Send(Status(SetHeader(Run(res), "content-type",
                                         Str(<<"image", "/", "webp">>)), 200),
                        Chunk("cache", 1))
          IN  /\ res' = m.res
              /\ pc' = After(m, "done", "rejected")
              /\ stream' = [stream EXCEPT !.cached = f]
     \/ /\ pc' = "metadata"
        /\ UNCHANGED <<res, stream>>
  /\ UNCHANGED <<variant, req, params, origin, fetches, outbound, decision>>

\* the callback of client.get: an error is rethrown; on a hit the template literal
\* reads `format` before its declaration (ReferenceError); on a miss metadata is asked
CacheGet_r ==
  /\ pc = "cache"
  /\ variant = "part002"
  /\ \/ /\ pc' = "rejected"
        /\ UNCHANGED <<res, stream>>
     \/ \E f \in CachedFormats :
          /\ pc' = "rejected"
          /\ stream' = [stream EXCEPT !.cached = f]
          /\ UNCHANGED res
     \/ /\ pc' = "metadata"
        /\ UNCHANGED <<res, stream>>
  /\ UNCHANGED <<variant, req, params, origin, fetches, outbound, decision>>

\* the metadata callback
MetadataCb_r ==
  /\ pc = "metadata"
  /\ variant = "part002"
  /\ \E err \in BOOLEAN :
       /\ stream' = [stream EXCEPT !.err = err]
       /\ IF err
          THEN LET m == redirect_a(Run(res), params)
               IN  res' = m.res /\ pc' = After(m, "done", "rejected")
          ELSE res' = res /\ pc' = "encoding"
  /\ UNCHANGED <<variant, req, params, origin, fetches, outbound, decision>>

\* the toBuffer callback: setResponseHeaders sets two headers and then reads `format`,
\* which is not in its scope (ReferenceError), so the response is never sent
ToBufferCb_r ==
  /\ pc = "encoding"
  /\ variant = "part002"
  /\ \/ LET m == redirect_a(Run(res), params)
        IN  res' = m.res /\ pc' = After(m, "done", "uncaught") /\ stream' = [stream EXCEPT !.err = TRUE]
     \/ \E size \in EncodedSizes :
          LET m == SetHeader(SetHeader(Run(res),
                     "content-type", Str(<<"image", "/", "webp">>)),
                     "content-length", Num(size))
          IN  /\ res' = m.res
              /\ pc' = "uncaught"
              /\ stream' = Encoded(0, size, "webp")
  /\ UNCHANGED <<variant, req, params, origin, fetches, outbound, decision>>

(***************************************************************************)
(* part_004 183-338: 'response' and 'error' listeners on the request, the  *)
(* codec piped to the response                                             *)
(***************************************************************************)
\* the 'response' listener
Response_p ==
  /\ pc = "awaitFetch"
  /\ variant = "part004_b"
  /\ IsAbsoluteURL(params.url)
  /\ \E o \in OriginResponses :
       LET p1 == WithOriginMeta(params, o)
           redir == o.status >= 400 \/ (o.status >= 300 /\ TruthyOpt(o.location))
           m1 == SetCorsHeaders(Run(res))
           comp == shouldCompressExpr(p1, req.range)
           m == IF redir THEN redirect_b(Run(res), p1)
                ELSE IF comp THEN m1 ELSE SetHeader(m1, "x-proxy-bypass", Num(1))
       IN  /\ origin' = o
           /\ fetches' \in {fetches + k : k \in Hops(o)}
           /\ params' = p1
           /\ res' = m.res
           /\ pc' = After(m, IF redir THEN "done"
                             ELSE IF comp THEN "metadata" ELSE "piping", "uncaught")
           /\ decision' = IF redir THEN decision ELSE Decided("expr", comp)
  /\ UNCHANGED <<variant, req, outbound, stream>>

\* the 'error' listener of the request
Error_p ==
  /\ pc = "awaitFetch"
  /\ variant = "part004_b"
  /\ \E err \in {e \in FetchErrors(params.url) : e.error # "HTTP_STATUS"} :
       LET m == redirect_b(Run(res), params)
       IN  /\ origin' = err
           /\ fetches' \in {fetches + k : k \in Hops(err)}
           /\ res' = m.res
           /\ pc' = After(m, "done", "uncaught")
  /\ UNCHANGED <<variant, req, params, outbound, stream, decision>>

\* the metadata promise settles: .then attaches the listeners and pipes, .catch redirects
Metadata_p ==
  /\ pc = "metadata"
  /\ variant = "part004_b"
  /\ \E err \in BOOLEAN :
       /\ stream' = [stream EXCEPT !.err = err]
       /\ IF err
          THEN LET m == redirect_b(Run(res), params)
               IN  res' = m.res /\ pc' = After(m, "done", "rejected")
          ELSE res' = res /\ pc' = "codecPipe"
  /\ UNCHANGED <<variant, req, params, origin, fetches, outbound, decision>>

\* codec 'info': writeHead(200, {content-type, content-length, x-original-size, x-bytes-saved})
Info_p ==
  /\ pc = "codecPipe"
  /\ stream.size = 0
  /\ \E size \in EncodedSizes :
       LET m == WriteHead(Run(res), 200,
                  [h \in {"content-type", "content-length", "x-original-size",
                          "x-bytes-saved"} |->
                     CASE h = "content-type" -> Str(<<"image", "/", Format(params)>>)
                       [] h = "content-length" -> Num(size)
                       [] h = "x-original-size" -> params.originSize
                       [] OTHER -> JsMinus(params.originSize, Num(size))])
       IN  /\ res' = m.res
           /\ pc' = After(m, "codecPipe", "uncaught")
           /\ stream' = Encoded(0, size, Format(params))
  /\ UNCHANGED <<variant, req, params, origin, fetches, outbound, decision>>

\* codec 'data', piped to the response
Data_p ==
  /\ pc = "codecPipe"
  /\ stream.size > 0
  /\ stream.n < MaxChunks
  /\ res.buffered < HighWaterMark
  /\ res' = Write(Run(res), Chunk("encoder", stream.n + 1)).res
  /\ stream' = [stream EXCEPT !.n = @ + 1]
  /\ UNCHANGED <<variant, req, params, origin, pc, fetches, outbound, decision>>

\* codec 'end': pipe ends the response
End_p ==
  /\ pc = "codecPipe"
  /\ stream.size > 0
  /\ res' = End(Run(res), <<>>).res
  /\ pc' = "done"
  /\ UNCHANGED <<variant, req, params, origin, fetches, outbound, stream, decision>>

\* codec 'error': redirect, which returns at once when the headers are sent
CodecError_p ==
  /\ pc = "codecPipe"
  /\ LET m == redirect_b(Run(res), params)
     IN  /\ res' = m.res
         /\ pc' = After(m, IF m.res.finished THEN "done" ELSE "stalled", "uncaught")
  /\ stream' = [stream EXCEPT !.err = TRUE]
  /\ UNCHANGED <<variant, req, params, origin, fetches, outbound, decision>>

(***************************************************************************)
(* part_004 499-638: the handler of proxy1.js 127-194 with a redirect that *)
(* sets statusCode, an 'error' listener on the origin response, and        *)
(* compress by toBuffer                                                    *)
(***************************************************************************)
\* redirect of part_004 534-545
redirect_d(m, p) ==
  IF m.exc \/ m.res.headersSent THEN m
  ELSE End(SetStatusCode(
             SetHeader(RemoveCacheHeaders(SetHeader(Redirecting(m), "content-length", Num(0))),
                       "location", encodeURI(p.url)),
             302),
           <<>>)

\* _onRequestError
onRequestError_d(m, p, err) ==
  IF err.error = "ERR_INVALID_URL"
  THEN End(SetStatusCode(m, 400), <<BodyText("Invalid URL")>>)
  ELSE redirect_d(m, p)

\* _onRequestResponse
onRequestResponse_d(m, p, o, range) ==
  IF o.status >= 400
  THEN [m |-> redirect_d(m, p), p |-> p, next |-> "done", branch |-> FALSE]
  ELSE IF o.status >= 300 /\ TruthyOpt(o.location)
  THEN LET p1 == [p EXCEPT !.url = o.location[1]]
       IN  [m |-> redirect_d(m, p1), p |-> p1, next |-> "done", branch |-> FALSE]
  ELSE LET m1 == SetCorsHeaders(SetHeader(copyHeaders(o, m),
                                          "content-encoding", Str(<<"identity">>)))
           p1 == WithOriginMeta(p, o)
       IN  IF shouldCompress(p1, range)
           THEN [m |-> m1, p |-> p1, next |-> "encoding", branch |-> TRUE]
           ELSE [m |-> Bypass(m1, o), p |-> p1, next |-> "piping", branch |-> TRUE]

\* the awaited request resolves
FetchResolve_d ==
  /\ pc = "awaitFetch"
  /\ variant = "part004_d"
  /\ IsAbsoluteURL(params.url)
  /\ \E o \in OriginResponses :
       LET r == onRequestResponse_d(Run(res), params, o, req.range)
           caught == onRequestError_d(Run(r.m.res), r.p, [NoOrigin EXCEPT !.error = "THROWN"])
       IN  /\ origin' = o
           /\ fetches' \in {fetches + k : k \in Hops(o)}
           /\ params' = r.p
           /\ res' = IF r.m.exc THEN caught.res ELSE r.m.res
           /\ pc' = IF r.m.exc THEN After(caught, "done", "rejected") ELSE r.next
           /\ decision' = IF r.branch THEN Decided("chain", r.next = "encoding")
                          ELSE decision
  /\ UNCHANGED <<variant, req, outbound, stream>>

\* the awaited request rejects
FetchReject_d ==
  /\ pc = "awaitFetch"
  /\ variant = "part004_d"
  /\ \E err \in FetchErrors(params.url) :
       LET m == onRequestError_d(Run(res), params, err)
       IN  /\ origin' = err
           /\ fetches' \in {fetches + k : k \in Hops(err)}
           /\ res' = m.res
           /\ pc' = After(m, "done", "rejected")
  /\ UNCHANGED <<variant, req, params, outbound, stream, decision>>

\* compress: the toBuffer callback
ToBufferCb_d ==
  /\ pc = "encoding"
  /\ variant = "part004_d"
  /\ \/ LET m == redirect_d(Run(res), params)
        IN  res' = m.res /\ pc' = After(m, "done", "uncaught") /\ stream' = [stream EXCEPT !.err = TRUE]
     \/ \E size \in EncodedSizes :
          LET m == End(Write(Status(
                     SetHeader(SetHeader(SetHeader(SetHeader(Run(res),
                       "content-type", Str(<<"image", "/", Format(params)>>)),
                       "content-length", Num(size)),
                       "x-original-size", params.originSize),
                       "x-bytes-saved", JsMinus(params.originSize, Num(size))),
                     200), Chunk("buffer", 1)), <<>>)
          IN  /\ res' = m.res
              /\ pc' = After(m, "done", "uncaught")
              /\ stream' = Encoded(1, size, Format(params))
  /\ UNCHANGED <<variant, req, params, origin, fetches, outbound, decision>>

\* originRes 'error' while the body is piped: req.socket.destroy() resets the client
OriginError_d ==
  /\ pc = "piping"
  /\ variant = "part004_d"
  /\ res' = [res EXCEPT !.closed = TRUE, !.buffered = 0]
  /\ pc' = "done"
  /\ stream' = [stream EXCEPT !.err = TRUE]
  /\ UNCHANGED <<variant, req, params, origin, fetches, outbound, decision>>

(***************************************************************************)
(* The client side of the response                                         *)
(***************************************************************************)
\* the client socket takes a chunk from the write buffer
ClientDrain ==
  /\ res.buffered > 0
  /\ ~res.closed
  /\ res' = [res EXCEPT !.buffered = @ - 1]
  /\ UNCHANGED <<variant, req, params, origin, pc, fetches, outbound, stream, decision>>

\* the states in which a stream is piped to the response
Piped == {"piping", "transforming", "codecPipe"}

\* the states in which a stream is written to the response by a 'data' listener
Listened == {"fileStream", "streaming"}

\* the client disconnects while the body is streamed.  pipe answers the 'close' of
\* the response by unpiping: the source is paused and stays open, nothing closes it.
\* A 'data' listener goes on writing, and the writes are dropped.
ClientClose ==
  /\ pc \in Piped \cup Listened
  /\ res.headersSent
  /\ ~res.closed
  /\ res' = [res EXCEPT !.closed = TRUE, !.buffered = 0]
  /\ pc' = IF pc \in Piped THEN "orphaned" ELSE pc
  /\ UNCHANGED <<variant, req, params, origin, fetches, outbound, stream, decision>>

Next ==
  \/ hhproxy_a
  \/ FetchResolve_a
  \/ FetchReject_a
  \/ PipeData
  \/ PipeEnd
  \/ PipeError
  \/ MetadataCb_a
  \/ ToFileCb_a
  \/ FileData_a
  \/ FileError_a
  \/ FileClose_a
  \/ OtherToFile_a
  \/ MetadataCb_t
  \/ ToBufferCb_t
  \/ hhproxy_b
  \/ FetchResolve_b
  \/ FetchReject_b
  \/ MetadataCb_b
  \/ sendResponse_b
  \/ hhproxy_h
  \/ OriginResponse_h
  \/ OriginError_h
  \/ Metadata_h
  \/ TransformInfo_h
  \/ TransformData_h
  \/ TransformEnd_h
  \/ TransformError_h
  \/ MetadataThen_s
  \/ StreamInfo_s
  \/ StreamData_s
  \/ StreamEnd_s
  \/ StreamError_s
  \/ CacheGet_r
  \/ MetadataCb_r
  \/ ToBufferCb_r
  \/ Response_p
  \/ Error_p
  \/ Metadata_p
  \/ Info_p
  \/ Data_p
  \/ End_p
  \/ CodecError_p
  \/ FetchResolve_d
  \/ FetchReject_d
  \/ ToBufferCb_d
  \/ OriginError_d
  \/ ClientDrain
  \/ ClientClose

Spec == Init /\ [][Next]_vars

\* one well-formed request per handler: ?url=<absolute URL> and nothing else, from a
\* caller that is not the proxy itself
FairRequests ==
  {r \in Requests :
     /\ r.url = Some(Str(<<"s", "z">>))
     /\ r.range = Undefined
     /\ r.jpeg = Undefined /\ r.bw = Undefined /\ r.l = Undefined
     /\ r.via = Undefined}

InitFair ==
  /\ variant \in Variants
  /\ req \in FairRequests
  /\ params = NoParams
  /\ res = NewResponse
  /\ origin = NoOrigin
  /\ pc = "start"
  /\ fetches = 0
  /\ outbound = NoOutbound
  /\ stream = NoStream
  /\ decision = NoDecision

\* the event loop runs every callback and delivers every event that is pending
SpecFair == InitFair /\ [][Next]_vars /\ WF_vars(Next)

(***************************************************************************)
(* shouldCompress as a function: both forms applied to every combination   *)
(* of origin type, origin size, Range header and output format             *)
(***************************************************************************)
PolicyTypes ==
  {Str(<<>>),
   Str(<<"image", "/", "png">>),
   Str(<<"image", "/", "gif">>),
   Str(<<"image", "/", "jpeg">>),
   Str(<<"image", "/", "png", ";", "charset=binary">>),
   Str(<<"text", "/", "html">>),
   Str(<<"application", "/", "png">>)}

PolicySizes ==
  {NaN, Num(-5), Num(0), Num(1),
   Num(MIN_COMPRESS_LENGTH - 1), Num(MIN_COMPRESS_LENGTH), Num(MIN_COMPRESS_LENGTH + 1),
   Num(50000),
   Num(MIN_TRANSPARENT_COMPRESS_LENGTH - 1), Num(MIN_TRANSPARENT_COMPRESS_LENGTH),
   Num(MIN_TRANSPARENT_COMPRESS_LENGTH + 1)}

InitPolicy ==
  /\ variant \in {"proxy1_a", "proxy1_b"}
  /\ req \in {r \in Requests : r.url = Undefined /\ r.jpeg = Undefined
                               /\ r.bw = Undefined /\ r.via = Undefined}
  /\ params \in {[NoParams EXCEPT !.originType = t, !.originSize = n, !.webp = w] :
                   t \in PolicyTypes, n \in PolicySizes, w \in BOOLEAN}
  /\ res = NewResponse
  /\ origin = NoOrigin
  /\ pc = "policy"
  /\ fetches = 0
  /\ outbound = NoOutbound
  /\ stream = NoStream
  /\ decision = NoDecision

\* shouldCompress of proxy1.js 13-23 applied to the request
EvalShouldCompress ==
  /\ pc = "policy"
  /\ variant = "proxy1_a"
  /\ decision' = Decided("chain", shouldCompress(params, req.range))
  /\ pc' = "decided"
  /\ UNCHANGED <<variant, req, params, res, origin, fetches, outbound, stream>>

\* shouldCompress of proxy1.js 232-241 applied to the request
EvalShouldCompressExpr ==
  /\ pc = "policy"
  /\ variant = "proxy1_b"
  /\ decision' = Decided("expr", shouldCompressExpr(params, req.range))
  /\ pc' = "decided"
  /\ UNCHANGED <<variant, req, params, res, origin, fetches, outbound, stream>>

NextPolicy == EvalShouldCompress \/ EvalShouldCompressExpr

SpecPolicy == InitPolicy /\ [][NextPolicy]_vars

(***************************************************************************)
(* The resize decision of compress as a function of the probed height:     *)
(* the metadata callback of each compress applied to heights around the    *)
(* limit.  resize is the height handed to resize, 0 when resize is not     *)
(* called with a height.                                                   *)
(***************************************************************************)
MAX_HEIGHT == 16383

\* metadata.height as the probe reports it
ProbedHeights == {1, 100, 8000, MAX_HEIGHT - 1, MAX_HEIGHT, MAX_HEIGHT + 1, 20000, 32767}

\* `metadata.height > 16383 ? { height: 16383 } : null`, resize only if set
resizeOptions(h) == IF h > MAX_HEIGHT THEN MAX_HEIGHT ELSE 0

\* part_002 90-92: `if (imgHeight >= 16383) resizeHeight = 16383`
resizeHeight(h) == IF h >= MAX_HEIGHT THEN MAX_HEIGHT ELSE 0

InitResize ==
  /\ variant \in Variants
  /\ req \in FairRequests
  /\ params = NoParams
  /\ res = NewResponse
  /\ origin = NoOrigin
  /\ pc = "metadata"
  /\ fetches = 0
  /\ outbound = NoOutbound
  /\ stream \in {[NoStream EXCEPT !.height = h] : h \in ProbedHeights}
  /\ decision = Decided("chain", TRUE)

\* the metadata callback builds the transformer: resize when the height is over the limit
PlanResize_a ==
  /\ pc = "metadata"
  /\ variant \notin {"part002", "part004_d"}
  /\ stream' = [stream EXCEPT !.resize = resizeOptions(stream.height)]
  /\ pc' = "encoding"
  /\ UNCHANGED <<variant, req, params, res, origin, fetches, outbound, decision>>

\* compress of part_002: resize({width: resizeWidth, height: resizeHeight})
PlanResize_r ==
  /\ pc = "metadata"
  /\ variant = "part002"
  /\ stream' = [stream EXCEPT !.resize = resizeHeight(stream.height)]
  /\ pc' = "encoding"
  /\ UNCHANGED <<variant, req, params, res, origin, fetches, outbound, decision>>

\* compress of part_004 548-567: the transformer is built without a probe or a resize
PlanResize_d ==
  /\ pc = "metadata"
  /\ variant = "part004_d"
  /\ stream' = [stream EXCEPT !.resize = 0]
  /\ pc' = "encoding"
  /\ UNCHANGED <<variant, req, params, res, origin, fetches, outbound, decision>>

NextResize == PlanResize_a \/ PlanResize_r \/ PlanResize_d

SpecResize == InitResize /\ [][NextResize]_vars

(***************************************************************************)
(* The quality as a function of the query parameter l: the parse of        *)
(* hhproxy and the quality compress hands to the encoder, applied to       *)
(* absent, unparsable, zero and numeric values of l.                       *)
(***************************************************************************)
\* req.query.l: absent, "0", "abc", "", "1", "40", "80", "-5"
QualityInputs ==
  {Undefined, Some(Txt(0, <<>>)), Some(Str(<<"abc">>)), Some(Str(<<>>)),
   Some(Txt(1, <<>>)), Some(Txt(DEFAULT_QUALITY, <<>>)), Some(Txt(80, <<>>)),
   Some(Txt(-5, <<>>))}

\* `req.params.quality || 80` of the compress functions that have the fallback
ENCODER_FALLBACK_QUALITY == 80
encoderQuality(q) == IF Truthy(q) THEN q ELSE Num(ENCODER_FALLBACK_QUALITY)

InitQuality ==
  /\ variant \in Variants
  /\ req \in {[r EXCEPT !.l = l] : r \in FairRequests, l \in QualityInputs}
  /\ params = NoParams
  /\ res = NewResponse
  /\ origin = NoOrigin
  /\ pc = "start"
  /\ fetches = 0
  /\ outbound = NoOutbound
  /\ stream = NoStream
  /\ decision = NoDecision

\* hhproxy builds req.params
ParseQuality ==
  /\ pc = "start"
  /\ params' = [params EXCEPT !.quality = quality(req.l)]
  /\ pc' = "parsed"
  /\ UNCHANGED <<variant, req, res, origin, fetches, outbound, stream, decision>>

\* compress hands `req.params.quality || 80` to the encoder
EncoderQuality_a ==
  /\ pc = "parsed"
  /\ variant \in {"proxy1_a", "part003_b"}
  /\ stream' = [stream EXCEPT !.quality = encoderQuality(params.quality)]
  /\ pc' = "encoding"
  /\ UNCHANGED <<variant, req, params, res, origin, fetches, outbound, decision>>

\* compress hands req.params.quality to the encoder (compress of part_002 scales it
\* by the size of the image first and is left out)
EncoderQuality_b ==
  /\ pc = "parsed"
  /\ variant \notin {"proxy1_a", "part003_b", "part002"}
  /\ stream' = [stream EXCEPT !.quality = params.quality]
  /\ pc' = "encoding"
  /\ UNCHANGED <<variant, req, params, res, origin, fetches, outbound, decision>>

NextQuality == ParseQuality \/ EncoderQuality_a \/ EncoderQuality_b

SpecQuality == InitQuality /\ [][NextQuality]_vars

(***************************************************************************)
(* Claims                                                                  *)
(***************************************************************************)
\* the request is over: the handler returned or threw and no callback is pending
Terminal == {"done", "rejected", "thrown", "uncaught", "stalled"}

\* the response as the client received it is a redirect to url
SentRedirectTo(url) ==
  /\ res.finished
  /\ res.sentStatus = 302
  /\ res.sentHdr["location"] = Some(url)

SentNoCacheHeaders == \A i \in 1..Len(CacheHeaders) : res.sentHdr[CacheHeaders[i]] = Undefined

\* C1: on every path the response is finalized once: res.end is never called a second
\* time and nothing is written after the end.
C1_EndedAtMostOnce == res.endCalls <= 1 /\ res.lateWrites = 0

\* C2: for every request without a url parameter the response is the body
\* "bandwidth-hero-proxy" with status 200, and no upstream request is issued.
C2_MissingUrlPlaceholder ==
  (req.url = Undefined /\ pc # "start") =>
     /\ res.finished
     /\ res.sentStatus = 200
     /\ res.body = <<BodyText("bandwidth-hero-proxy")>>
     /\ fetches = 0

\* C3: every origin response with status >= 400 is answered with a 302 to the target
\* URL, never with an error status, a relayed body or a transcode.
C3_OriginErrorRedirects ==
  (origin.status >= 400 /\ pc \in Terminal) =>
     /\ SentRedirectTo(encodeURI(params.url))
     /\ res.body = <<>>

\* C4: every fetch failure other than a malformed URL (DNS, connection, timeout) is
\* answered with a redirect to the origin, not with an error status.
C4_FetchFailureRedirects ==
  (origin.error \in NetworkErrors /\ pc \in Terminal) => SentRedirectTo(encodeURI(params.url))

\* C5: for every origin response with a status in [300,400) and a Location header the
\* client receives a 302 whose Location is the origin's Location value, without
\* cache-control, expires, date or etag.
C5_OriginRedirectRelayed ==
  (origin.status >= 300 /\ origin.status < 400 /\ TruthyOpt(origin.location)
     /\ pc \in Terminal) =>
        /\ SentRedirectTo(origin.location[1])
        /\ SentNoCacheHeaders

\* C6: whenever redirect takes effect (the response had not started) the response has
\* status 302, Location set to the origin URL, Content-Length 0, none of
\* cache-control/expires/date/etag, and is ended.
C6_RedirectResponse ==
  res.redirected =>
     /\ SentRedirectTo(encodeURI(params.url))
     /\ res.sentHdr["content-length"] # Undefined
     /\ res.sentHdr["content-length"][1].k \in {"num", "txt"}
     /\ res.sentHdr["content-length"][1].n = 0
     /\ SentNoCacheHeaders

\* the target URL of the request is malformed: its escapes do not decode, or what the
\* handler takes as the URL is not an absolute URL
MalformedTarget ==
  /\ req.url # Undefined
  /\ IF variant = "part004_a"
     THEN ~IsAbsoluteURL(Str(replaceBmi(req.url[1].s)))
     ELSE \/ ~decodeURIComponent(req.url[1]).ok
          \/ ~IsAbsoluteURL(decodeURIComponent(req.url[1]).v)

\* C7: a malformed target URL always yields status 400 with a short plain-text body and
\* no Location, wherever it is detected (decoding, URL parsing, fetch).
C7_MalformedUrlIs400 ==
  (MalformedTarget /\ pc \in Terminal) =>
     /\ res.finished
     /\ res.sentStatus = 400
     /\ res.body = <<BodyText("Invalid URL")>>
     /\ res.sentHdr["location"] = Undefined

\* a transcode of the request is pending or running
Transcoding ==
  pc \in {"cache", "metadata", "encoding", "fileStream", "transforming", "streaming",
          "codecPipe"}

\* C8: a request carrying a Range header is never transformed: whatever the origin type
\* and size, shouldCompress is false and the response takes the passthrough path.
C8_RangeNeverTransformed ==
  TruthyOpt(req.range) =>
     /\ ~Transcoding
     /\ decision.by # "none" =>
          /\ ~decision.result
          /\ res.hdr["x-proxy-bypass"] = Some(Num(1))
          /\ res.hdr["x-original-size"] = Undefined
     /\ \A i \in 1..Len(res.body) : res.body[i].src \in {"origin", "text"}

\* a Range request for a large image has been relayed to its end
C8_Witness ==
  /\ TruthyOpt(req.range)
  /\ decision.by # "none"
  /\ startsWith(params.originType, "image")
  /\ JsGt(params.originSize, MIN_TRANSPARENT_COMPRESS_LENGTH)
  /\ pc = "done"
  /\ res.finished
  /\ Len(res.body) = MaxChunks

\* the content-type string names a png or gif: it ends with "png" or "gif"
IsPngOrGif(type) == endsWith(type, "png") \/ endsWith(type, "gif")

\* the five exclusions; the content type is read as the text of the header
Excluded(p, range) ==
  \/ ~startsWith(p.originType, "image")
  \/ (p.originSize.k = "num" /\ p.originSize.n = 0)
  \/ TruthyOpt(range)
  \/ (p.webp /\ p.originSize.k = "num" /\ p.originSize.n < MIN_COMPRESS_LENGTH)
  \/ ((~p.webp) /\ IsPngOrGif(p.originType)
      /\ p.originSize.k = "num" /\ p.originSize.n < MIN_TRANSPARENT_COMPRESS_LENGTH)

\* C9: shouldCompress returns false when the origin content-type is not an image, the
\* origin size is 0, a Range header is present, the output is webp and the size is
\* below 1024, or the output is jpeg, the origin is png or gif and the size is below
\* 102400.
C9_ExclusionsReturnFalse ==
  (decision.by # "none" /\ Excluded(params, req.range)) => ~decision.result

\* jpeg output, a png of 50000 bytes, no Range header: not compressed
C9_Witness ==
  /\ decision.by = "chain"
  /\ ~params.webp
  /\ params.originType = Str(<<"image", "/", "png">>)
  /\ params.originSize = Num(50000)
  /\ req.range = Undefined
  /\ ~decision.result

\* C10: for an image origin and no Range header, shouldCompress is true on the webp
\* path for every size >= 1024, on the jpeg path for png/gif of every size >= 102400
\* and for the other image types of every size > 0.
C10_OtherwiseTrue ==
  (/\ decision.by # "none"
   /\ startsWith(params.originType, "image")
   /\ ~TruthyOpt(req.range)
   /\ params.originSize.k = "num") =>
     /\ (params.webp /\ params.originSize.n >= MIN_COMPRESS_LENGTH) => decision.result
     /\ ((~params.webp) /\ IsPngOrGif(params.originType)
         /\ params.originSize.n >= MIN_TRANSPARENT_COMPRESS_LENGTH) => decision.result
     /\ ((~params.webp) /\ ~IsPngOrGif(params.originType)
         /\ params.originSize.n > 0) => decision.result

\* webp output and a size of exactly 1024 bytes: compressed, by the boolean expression
C10_Witness ==
  /\ decision.by = "expr"
  /\ params.webp
  /\ params.originType = Str(<<"image", "/", "png">>)
  /\ params.originSize = Num(MIN_COMPRESS_LENGTH)
  /\ req.range = Undefined
  /\ decision.result

\* req.params has been built from the query string of the request
Parsed == params.quality # NoParams.quality

\* C11: the quality of every parsed request is an integer in [1,100]: 40 when l is
\* absent, and clamped into [1,100] for every supplied value.
C11_QualityInRange ==
  Parsed =>
     /\ params.quality.k = "num"
     /\ params.quality.n >= 1
     /\ params.quality.n <= 100
     /\ (req.l = Undefined => params.quality.n = DEFAULT_QUALITY)

\* C12: the output format is JPEG when the jpeg parameter is present with any value,
\* an empty value included, and WebP when it is absent.
C12_FormatSelection ==
  Parsed => (Format(params) = IF req.jpeg = Undefined THEN "webp" ELSE "jpeg")

\* C13: grayscale is disabled exactly when bw is 0; for every other value, an empty
\* value included, and when bw is absent, grayscale is enabled.
C13_GrayscaleSelection ==
  Parsed => (params.grayscale <=> req.bw # Some(Txt(0, <<>>)))

\* where the chunks of an encoded image come from
EncodedSources == {"file", "buffer", "encoder"}

\* the response has been ended and carries the output of the encoder
TranscodeSucceeded ==
  /\ pc = "done"
  /\ res.finished
  /\ ~res.closed
  /\ \E i \in 1..Len(res.body) : res.body[i].src \in EncodedSources

\* the header of the response as sent is present and numeric
SentNumber(h) == res.sentHdr[h] # Undefined /\ res.sentHdr[h][1].k = "num"

\* C14: on every successful transcode X-Original-Size, Content-Length and X-Bytes-Saved
\* are present and X-Bytes-Saved equals X-Original-Size minus Content-Length exactly.
C14_BytesSavedExact ==
  TranscodeSucceeded =>
     /\ SentNumber("x-original-size")
     /\ SentNumber("content-length")
     /\ SentNumber("x-bytes-saved")
     /\ res.sentHdr["x-bytes-saved"][1].n =
          res.sentHdr["x-original-size"][1].n - res.sentHdr["content-length"][1].n

\* C15: within one request all header-setting is complete before the first body byte
\* is written: no header is set once the response has started.
C15_HeadersBeforeBody == res.lateHeaders = 0

\* a transcode streamed by listeners to its end: the headers set by the 'info'
\* listener are in the header block, ahead of every chunk of the body
C15_Witness ==
  /\ variant = "part003_a"
  /\ pc = "done"
  /\ Len(res.body) = MaxChunks
  /\ res.sentHdr["content-length"] = Some(Num(stream.size))
  /\ res.sentHdr["x-bytes-saved"] # Undefined
  /\ res.lateHeaders = 0

\* C16: whatever the pace of the client, the chunks buffered between the producer and
\* the client socket stay within the high-water mark, independently of the size of the
\* image: the producer is paused while the write buffer is full.
C16_Backpressure == res.buffered <= HighWaterMark

\* no event of the request is pending any more
Quiescent == Terminal \cup {"orphaned"}

\* the origin response or the codec stream of the request is open: it is being
\* delivered, or it was paused by an unpipe and nothing has closed it
UpstreamOpen == pc \in Piped \cup Listened \cup {"orphaned"}

\* C17: when the client disconnects mid-stream the origin fetch and the codec pipeline
\* of the request are aborted: no upstream socket or codec stream stays open afterwards.
C17_ClientCloseAborts == (res.closed /\ pc \in Quiescent) => ~UpstreamOpen

\* the origin response failed while its body was relayed to the client
OriginFailedMidStream == stream.err /\ decision.by # "none" /\ ~decision.result

\* C18: when the origin disconnects or errors mid-stream the client response is ended
\* or reset; the request does not stay with the response left open.
C18_OriginErrorEndsResponse ==
  (OriginFailedMidStream /\ pc \in Quiescent) => (res.finished \/ res.closed)

\* the response has been ended on the passthrough or the transcoded path, not by a
\* redirect or an error
Succeeded ==
  /\ pc = "done"
  /\ res.finished
  /\ ~res.closed
  /\ ~res.redirected
  /\ decision.by # "none"

\* the three cross-origin headers are in the header block as sent
SentCorsHeaders ==
  /\ res.sentHdr["access-control-allow-origin"] = Some(Str(<<"*">>))
  /\ res.sentHdr["cross-origin-resource-policy"] = Some(Str(<<"cross-origin">>))
  /\ res.sentHdr["cross-origin-embedder-policy"] = Some(Str(<<"unsafe-none">>))

\* C19: every successful response, transcoded or passed through, carries the three
\* cross-origin headers; the passthrough response also carries X-Proxy-Bypass: 1, and
\* a transcoded response never carries X-Proxy-Bypass.
C19_ResponseHeaders ==
  Succeeded =>
     /\ SentCorsHeaders
     /\ (~decision.result) => res.sentHdr["x-proxy-bypass"] = Some(Num(1))
     /\ decision.result => res.sentHdr["x-proxy-bypass"] = Undefined

\* C20: every transcoded response has Content-Type image/webp when WebP was requested
\* and image/jpeg when JPEG was forced, its body is encoded in that format, and its
\* Content-Encoding is identity.
C20_TranscodedFormat ==
  TranscodeSucceeded =>
     /\ res.sentHdr["content-type"] = Some(Str(<<"image", "/", Format(params)>>))
     /\ stream.format = Format(params)
     /\ res.sentHdr["content-encoding"] = Some(Str(<<"identity">>))


\* C21: the upstream request is a GET whose headers are the inbound cookie, dnt, referer
\* and range where the client sent them, a User-Agent, X-Forwarded-For with the inbound
\* value or else the caller address, and Via: 1.1 bandwidth-hero; no other inbound header
\* is forwarded.
C21_OutboundRequest ==
  fetches > 0 =>
     /\ outbound.method = "GET"
     /\ \A h \in {"cookie", "dnt", "referer", "range"} : outbound.headers[h] = req[h]
     /\ outbound.headers["user-agent"] # Undefined
     /\ outbound.headers["x-forwarded-for"] =
          Some(IF req.xff # Undefined THEN req.xff[1] ELSE req.ip)
     /\ outbound.headers["via"] = Some(VIA_BANDWIDTH_HERO)
     /\ outbound.headers["authorization"] = Undefined

\* the request carries the proxy's own Via value and was forwarded from loopback
Looped == LoopGuard(req, VIA_BANDWIDTH_HERO)

\* C22: a request carrying Via: 1.1 bandwidth-hero whose forwarding address is loopback
\* is redirected to the origin URL and no upstream request is made for it.
C22_LoopGuardRedirects ==
  (Looped /\ Parsed /\ pc \in Terminal) =>
     /\ fetches = 0
     /\ SentRedirectTo(encodeURI(params.url))

\* the client stopped following redirects and handed over a redirect answer
RedirectLimitReached ==
  origin.status >= 300 /\ origin.status < 400 /\ TruthyOpt(origin.location)

\* C23: the client follows a chain of origin redirects for at most four hops; when the
\* chain is longer the client of the proxy gets the redirect response with Location set
\* to the last location the origin gave.
C23_RedirectChainBounded ==
  /\ fetches > 0 => fetches - 1 <= 4
  /\ (RedirectLimitReached /\ pc \in Terminal) =>
        /\ res.sentStatus = 302
        /\ res.sentHdr["location"] = Some(encodeURI(origin.location[1]))


\* a step that does nothing but call redirect: a failure of the file stream or of the
\* encoder after compress has attached its listeners
RedirectCalled == FileError_a \/ StreamError_s \/ CodecError_p

\* C24: redirect called on a response whose headers are already sent changes nothing
\* of the response: status, headers and body stay as they were.
C24_RedirectNoOpOnceStarted == [][(res.headersSent /\ RedirectCalled) => res' = res]_vars

\* redirect has been called after the first chunk of a transcode went out
C24_Witness ==
  /\ stream.err
  /\ res.headersSent
  /\ res.body # <<>>
  /\ ~res.redirected
  /\ decision.result
  /\ pc \in {"fileStream", "stalled"}


\* the transcode chosen for the request has failed: the metadata probe, the encoder or
\* the stream of its output reported an error
TranscodeFailed == decision.result /\ stream.err

\* C25: a failed transcode redirects the client to the origin URL when the headers were
\* not yet sent; when they were, the response is only cut short: no header is set and
\* no second response is produced on it.
C25_TranscodeFailureRedirects ==
  (TranscodeFailed /\ pc \in Terminal) =>
     \/ SentRedirectTo(encodeURI(params.url))
     \/ /\ res.headersSent
        /\ ~res.redirected
        /\ res.lateHeaders = 0
        /\ res.endCalls <= 1


\* the response is over for the client: ended by the handler, or the client has gone
ResponseOver == res.finished \/ res.closed

\* C26: every request that enters the transcode pipeline has its response ended: once
\* every pending callback and event has run, no such response is left open.
C26_TranscodeEventuallyEnds == decision.result ~> ResponseOver


\* the state of the transcode of the request; a request that is not transcoded stays Idle
Phase ==
  IF ~decision.result THEN "Idle"
  ELSE IF \/ stream.err
          \/ res.redirected
          \/ pc \in {"rejected", "thrown", "uncaught", "stalled", "orphaned"}
  THEN "Failed"
  ELSE CASE pc = "metadata" -> "MetadataPending"
         [] pc = "encoding" -> "Transforming"
         [] pc \in {"fileStream", "transforming", "streaming", "codecPipe"} ->
              IF stream.format = "" THEN "Transforming" ELSE "Streaming"
         [] pc = "done" -> "Completed"
         [] OTHER -> "Idle"

PhaseRank(ph) ==
  CASE ph = "Idle" -> 0
    [] ph = "MetadataPending" -> 1
    [] ph = "Transforming" -> 2
    [] ph = "Streaming" -> 3
    [] OTHER -> 4

\* C27: the transcode of a request moves only along Idle, MetadataPending, Transforming,
\* Streaming and then Completed or Failed: no state is skipped or entered again, the
\* transform starts only after the metadata probe has returned, and Completed and
\* Failed are final.  (A callback that writes the whole output and ends the response
\* passes through Streaming within its step.)
C27_TranscodeStateMachine ==
  [][\/ Phase' = Phase
     \/ Phase' = "Failed" /\ Phase \notin {"Completed", "Failed"}
     \/ Phase' # "Failed" /\ PhaseRank(Phase') = PhaseRank(Phase) + 1
     \/ Phase = "Transforming" /\ Phase' = "Completed" /\ res'.body # res.body]_vars

\* C28: the encoder is given every chunk of the origin body once and in the order of
\* arrival: what the metadata probe has read is still seen by the transform, and
\* nothing is dropped, repeated or reordered on the way.
C28_EncoderSeesEveryByte ==
  (decision.result /\ stream.format # "") => stream.fed = OriginBody


\* C29: requests share no mutable state: whatever another request does meanwhile, every
\* byte of the body a client receives for its transcode comes from its own image.
C29_OwnBytesOnly == \A i \in 1..Len(res.body) : res.body[i].t # "other"


\* the response carries bytes taken from the cache
ServedFromCache == \E i \in 1..Len(res.body) : res.body[i].src = "cache"

NoOriginLength == origin.length = Undefined \/ origin.length[1].k = "str"

\* C31: the origin size recorded for a request is a non-negative integer; it is 0 when
\* the origin's content-length is absent or is not a number, and such a request is
\* never transcoded.
C31_OriginSizeNonNegative ==
  decision.by # "none" =>
     /\ params.originSize.k = "num"
     /\ params.originSize.n >= 0
     /\ NoOriginLength => (params.originSize.n = 0 /\ ~decision.result)


\* the height of the encoded image: that of the resize when one is planned
OutputHeight == IF stream.resize # 0 THEN stream.resize ELSE stream.height

\* C32: the transform plan holds a resize to height 16383 exactly when the probed height
\* is greater than 16383 and none otherwise, so that the output is never higher than
\* 16383 and an image of height at most 16383 keeps its height.
C32_ResizeDecision ==
  pc = "encoding" =>
     /\ stream.resize = MAX_HEIGHT <=> stream.height > MAX_HEIGHT
     /\ stream.resize \in {0, MAX_HEIGHT}
     /\ OutputHeight <= MAX_HEIGHT
     /\ stream.height <= MAX_HEIGHT => OutputHeight = stream.height


\* the body the request is sent when no other request runs: the chunks of its own
\* encoded output, each once and in order
RunAloneBody == [i \in 1..Len(res.body) |-> Chunk(res.body[i].src, i)]

\* C33: the same request against an unchanged origin is answered with the same bytes
\* and the same headers on every run, whatever other requests run meanwhile: the body of
\* a successful transcode is the request's own encoded output and the Content-Length
\* sent is the size of that output.
C33_SameOutputEachRun ==
  TranscodeSucceeded =>
     /\ res.body = RunAloneBody
     /\ res.sentHdr["content-length"] = Some(Num(stream.size))


\* C34: the if-chain form of shouldCompress and the boolean-expression form give the
\* same answer for every origin type, origin size (a NaN size included), Range presence
\* and webp flag: whichever form has decided, the other decides the same.
C34_FormsAgree ==
  /\ decision.by = "chain" => decision.result = shouldCompressExpr(params, req.range)
  /\ decision.by = "expr" => decision.result = shouldCompress(params, req.range)


\* C35: on the transcoded path the Content-Length and the Content-Type sent to the
\* client are those of the encoded output: the values copied from the origin response
\* are overwritten before the header block is flushed.
C35_EncodedLengthAndTypeSent ==
  (decision.result /\ res.headersSent /\ ~res.redirected
     /\ \E i \in 1..Len(res.body) : res.body[i].src \in EncodedSources) =>
     /\ res.sentHdr["content-length"] = Some(Num(stream.size))
     /\ res.sentHdr["content-type"] = Some(Str(<<"image", "/", stream.format>>))

\* a transcode of an origin response that declared its own length and type has been
\* sent with the length and type of the encoded output instead
C35_Witness ==
  /\ TranscodeSucceeded
  /\ decision.result
  /\ variant = "proxy1_a"
  /\ origin.length = Some(Txt(200000, <<>>))
  /\ origin.type = Some(Str(<<"image", "/", "png">>))
  /\ res.sentHdr["content-length"] = Some(Num(300))
  /\ res.sentHdr["content-type"] = Some(Str(<<"image", "/", Format(params)>>))


\* the response carries bytes of the origin body relayed as they came
RelayedOrigin == \E i \in 1..Len(res.body) : res.body[i].src = "origin"

\* C36: every passthrough response carries Content-Encoding: identity, whatever
\* content-encoding the origin declared: the header is set after the origin headers are
\* copied and before the branch, and the origin bytes are relayed as they are.
C36_PassthroughIdentity ==
  (RelayedOrigin /\ ~decision.result) =>
     res.sentHdr["content-encoding"] = Some(Str(<<"identity">>))


\* l is absent, has no leading integer, or parses to 0
NoUsableL == req.l = Undefined \/ parseInt(req.l) = NaN \/ parseInt(req.l) = Num(0)

\* C37: the parsed quality is never 0 and never NaN: it is exactly 40 when l is absent,
\* does not parse as an integer or parses to 0, so that the encoder is always handed the
\* parsed quality and the `|| 80` of compress is never taken.
C37_QualityNeverZero ==
  pc \in {"parsed", "encoding"} =>
     /\ params.quality.k = "num"
     /\ params.quality.n # 0
     /\ NoUsableL => params.quality = Num(DEFAULT_QUALITY)
     /\ pc = "encoding" => stream.quality = params.quality

\* l=0 has been parsed to 40 and a compress with the `|| 80` has handed 40 to the encoder
C37_Witness ==
  /\ pc = "encoding"
  /\ variant = "proxy1_a"
  /\ req.l = Some(Txt(0, <<>>))
  /\ params.quality = Num(DEFAULT_QUALITY)
  /\ stream.quality = Num(DEFAULT_QUALITY)

====
